---- MODULE Spec2Model ----
(***************************************************************************)
(* A model of the cyberapi time-tracking ledger: the Deno KV store, the    *)
(* database operations of db.ts and the request handlers that call them.   *)
(*                                                                         *)
(* The store is one partial function kv from keys (tuples, as built by     *)
(* createKey) to values.  Every handler is a sequence of steps, one per    *)
(* awaited store operation: a step performs that operation on the store    *)
(* and runs the synchronous code that follows it, up to the next await.    *)
(* Requests of different workers interleave between steps.                 *)
(*                                                                         *)
(* Representation of values:                                               *)
(*   - crypto.randomUUID() is a fresh identifier taken from nextId;        *)
(*   - a timestamp (Date, or the ISO string toISOString() gives and        *)
(*     new Date() parses back) is the number of clock ticks it denotes;    *)
(*     one tick is half an hour;                                           *)
(*   - an hours value is kept in ticks (TicksPerHour to the hour), and a   *)
(*     money amount in whole currency units.                               *)
(***************************************************************************)
EXTENDS Integers, Sequences, FiniteSets, TLC

VARIABLES
    kv,      \* the Deno KV store: key tuple -> value
    now,     \* the wall clock, in ticks
    nextId,  \* the next identifier crypto.randomUUID() returns
    req,     \* req[w]: the request worker w is handling, and where it is
    log,     \* history: the responses sent so far, in order
    nreq     \* history: the number of requests accepted so far

vars == <<kv, now, nextId, req, log, nreq>>

(***************************************************************************)
(* Bounds of the model.                                                    *)
(***************************************************************************)
MaxRequests == 3
MaxTime == 3

Workers == {1, 2}
Emails == {"a@x.io", "b@x.io"}

(***************************************************************************)
(* The ms-per-hour divisor of stopTimer, in ticks: hours = ticks / 2.      *)
(***************************************************************************)
TicksPerHour == 2

(***************************************************************************)
(* The store adapter: point reads, prefix scans, atomic commits.           *)
(***************************************************************************)
createKey(parts) == parts

Has(k) == k \in DOMAIN kv

\* kv.list({ prefix }): the keys under a prefix
List(prefix) ==
    {k \in DOMAIN kv : Len(k) >= Len(prefix) /\ SubSeq(k, 1, Len(prefix)) = prefix}

\* atomic.check({ key, versionstamp: null }) for every key of checks
ChecksPass(checks) == \A k \in checks : ~Has(k)

\* the store after the sets (a function key -> value) and the deletes
Applied(sets, dels) ==
    [k \in (DOMAIN kv \ dels) \cup DOMAIN sets |->
        IF k \in DOMAIN sets THEN sets[k] ELSE kv[k]]

EmptyStore == [k \in {} |-> 0]

Idle == [pc |-> "idle"]

IsIdle(w) == req[w].pc = "idle"

\* a worker takes a new request
Accept(w) == IsIdle(w) /\ nreq < MaxRequests

\* the response of worker w is sent
Respond(w, r) ==
    /\ log' = Append(log, r)
    /\ req' = [req EXCEPT ![w] = Idle]

(***************************************************************************)
(* Identity registry: db.ts createUser, handlers/auth.ts register.         *)
(***************************************************************************)
createUserChecksNone(user) == {}

\* .check({ key: emailIndexKey, versionstamp: null })
createUserChecks(user) == {createKey(<<"user_email", user.email>>)}

createUserSets(user) ==
    (createKey(<<"user", user.id>>) :> user)
    @@ (createKey(<<"user_email", user.email>>) :> [userId |-> user.id])

\* the User object register builds once no existing user was found (the
\* request's hourlyRate is 100)
NewUser(e) == [id |-> nextId, email |-> e, hourlyRate |-> 100]

\* register: getUserByEmail reads the email index
register_getUserByEmail(w, e) ==
    /\ Accept(w)
    /\ nreq' = nreq + 1
    /\ IF Has(createKey(<<"user_email", e>>))
       THEN /\ req' = [req EXCEPT ![w] =
                  [pc |-> "rg_user", op |-> "register", email |-> e,
                   userId |-> kv[createKey(<<"user_email", e>>)].userId]]
            /\ UNCHANGED nextId
       ELSE /\ req' = [req EXCEPT ![w] =
                  [pc |-> "cu_get", op |-> "register", email |-> e,
                   user |-> NewUser(e)]]
            /\ nextId' = nextId + 1
    /\ UNCHANGED <<kv, now, log>>

\* register: getUserByEmail reads the user the index points to
register_getUserById(w) ==
    /\ req[w].pc = "rg_user"
    /\ IF Has(createKey(<<"user", req[w].userId>>))
       THEN /\ Respond(w, [op |-> "register", email |-> req[w].email,
                           status |-> "BadRequest",
                           error |-> "Email already exists"])
            /\ UNCHANGED nextId
       ELSE /\ req' = [req EXCEPT ![w] =
                  [pc |-> "cu_get", op |-> "register", email |-> req[w].email,
                   user |-> NewUser(req[w].email)]]
            /\ nextId' = nextId + 1
            /\ UNCHANGED log
    /\ UNCHANGED <<kv, now, nreq>>

\* createUser: the fast-path read of the email index
createUser_get(w) ==
    /\ req[w].pc = "cu_get"
    /\ IF Has(createKey(<<"user_email", req[w].user.email>>))
       THEN Respond(w, [op |-> "register", email |-> req[w].email,
                        status |-> "InternalServerError",
                        error |-> "Email already exists"])
       ELSE /\ req' = [req EXCEPT ![w].pc = "cu_commit"]
            /\ UNCHANGED log
    /\ UNCHANGED <<kv, now, nextId, nreq>>

\* createUser: the atomic commit of the user and its email index
createUser_commit(w) ==
    /\ req[w].pc = "cu_commit"
    /\ IF ChecksPass(createUserChecks(req[w].user))
       THEN /\ kv' = Applied(createUserSets(req[w].user), {})
            /\ Respond(w, [op |-> "register", email |-> req[w].email,
                           status |-> "OK", error |-> "",
                           userId |-> req[w].user.id])
       ELSE /\ UNCHANGED kv
            /\ Respond(w, [op |-> "register", email |-> req[w].email,
                           status |-> "InternalServerError",
                           error |-> "Failed to create user: Database error"])
    /\ UNCHANGED <<now, nextId, nreq>>

(***************************************************************************)
(* The seeded store: two registered users, one project created by the     *)
(* first (its owner), the second added to it as a member.  It is what     *)
(* register, createProject and createProjectMember leave behind.          *)
(***************************************************************************)
Users == {1, 2}
Projects == {10}

SeedUser(u) == [id |-> u, email |-> IF u = 1 THEN "a@x.io" ELSE "b@x.io",
                hourlyRate |-> IF u = 1 THEN 100 ELSE 50]

SeedProject(p) == [id |-> p, budget |-> 10000, remainingBudget |-> 10000,
                   ownerId |-> 1, profitSharingEnabled |-> TRUE,
                   profitSharingPercentage |-> 1, bonusPool |-> 0]

SeedMember(p, u) == [projectId |-> p, userId |-> u,
                     role |-> IF u = 1 THEN "OWNER" ELSE "MEMBER",
                     hourlyRate |-> SeedUser(u).hourlyRate, totalHours |-> 0]

SeedKeys ==
    {<<"user", u>> : u \in Users}
    \cup {<<"user_email", SeedUser(u).email>> : u \in Users}
    \cup {<<"project", p>> : p \in Projects}
    \cup {<<"project_owner", SeedProject(p).ownerId, p>> : p \in Projects}
    \cup {<<"project_member", p, u>> : p \in Projects, u \in Users}
    \cup {<<"project_member_index", p, SeedMember(p, u).role, u>> :
              p \in Projects, u \in Users}

SeedStore ==
    [k \in SeedKeys |->
        CASE k[1] = "user" -> SeedUser(k[2])
          [] k[1] = "user_email" ->
                [userId |-> CHOOSE u \in Users : SeedUser(u).email = k[2]]
          [] k[1] = "project" -> SeedProject(k[2])
          [] k[1] = "project_owner" -> [projectId |-> k[3]]
          [] k[1] = "project_member" -> SeedMember(k[2], k[3])
          [] k[1] = "project_member_index" -> [userId |-> k[4], role |-> k[3]]]

\* the remainingBudget of project p in a store (0 when there is no project)
RemainingBudget(store, p) ==
    IF createKey(<<"project", p>>) \in DOMAIN store
    THEN store[createKey(<<"project", p>>)].remainingBudget
    ELSE 0

(***************************************************************************)
(* The clock.                                                              *)
(***************************************************************************)
Tick ==
    /\ now < MaxTime
    /\ now' = now + 1
    /\ UNCHANGED <<kv, nextId, req, log, nreq>>

\* hours * member.hourlyRate, with hours in ticks
Cost(hours, rate) == (hours * rate) \div TicksPerHour

(***************************************************************************)
(* Timer state machine: db.ts startTimer, stopTimer, getActiveTimerByUser, *)
(* getActiveTimersByProject; handlers/timers.ts; api.ts _handleStartTimer. *)
(***************************************************************************)
\* getActiveTimerByUser on one snapshot of the store: the set holding the
\* timer the singleton index of u points to, or the empty set for null
getActiveTimerByUser(u) ==
    IF Has(createKey(<<"active_timer_user", u>>))
       /\ Has(createKey(<<"active_timer", kv[createKey(<<"active_timer_user", u>>)].timerId>>))
    THEN {kv[createKey(<<"active_timer", kv[createKey(<<"active_timer_user", u>>)].timerId>>)]}
    ELSE {}

\* getActiveTimersByProject on one snapshot of the store
getActiveTimersByProject(p) ==
    {kv[createKey(<<"active_timer", kv[k].timerId>>)] :
        k \in {j \in List(createKey(<<"active_timer_project", p>>)) :
                  Has(createKey(<<"active_timer", kv[j].timerId>>))}}

\* the ActiveTimer db.startTimer builds
NewTimer(u, p) == [id |-> nextId, userId |-> u, projectId |-> p, startedAt |-> now]

\* db.startTimer: atomic.set of the timer, its user index, its project index
startTimerSets(timer) ==
    (createKey(<<"active_timer", timer.id>>) :> timer)
    @@ (createKey(<<"active_timer_user", timer.userId>>) :> [timerId |-> timer.id])
    @@ (createKey(<<"active_timer_project", timer.projectId, timer.id>>)
            :> [timerId |-> timer.id])

\* db.startTimer: its commit carries no check
startTimerChecks(timer) == {}

\* db.startTimer as one step: build the timer, commit, return it.  In the
\* response, began (the number of responses sent when the request arrived)
\* and running (whether the user had a running timer when it committed) are
\* history.
startTimer(w, u, p, opName, began) ==
    IF ChecksPass(startTimerChecks(NewTimer(u, p)))
    THEN /\ kv' = Applied(startTimerSets(NewTimer(u, p)), {})
         /\ nextId' = nextId + 1
         /\ Respond(w, [op |-> opName, user |-> u, status |-> "Created",
                        error |-> "", timer |-> NewTimer(u, p), began |-> began,
                        running |-> getActiveTimerByUser(u) # {}])
    ELSE /\ UNCHANGED <<kv, nextId>>
         /\ Respond(w, [op |-> opName, user |-> u,
                        status |-> "InternalServerError",
                        error |-> "Failed to start timer", began |-> began,
                        running |-> getActiveTimerByUser(u) # {}])

\* handlers/timers.ts startTimer: getActiveTimerByUser reads the user index
startTimer_getIndex(w, u, p) ==
    /\ Accept(w)
    /\ nreq' = nreq + 1
    /\ req' = [req EXCEPT ![w] =
          IF Has(createKey(<<"active_timer_user", u>>))
          THEN [pc |-> "st_timer", op |-> "startTimer", user |-> u, project |-> p,
                began |-> Len(log),
                indexed |-> kv[createKey(<<"active_timer_user", u>>)].timerId]
          ELSE [pc |-> "st_member", op |-> "startTimer", user |-> u, project |-> p,
                began |-> Len(log)]]
    /\ UNCHANGED <<kv, now, nextId, log>>

\* handlers/timers.ts startTimer: getActiveTimerByUser reads the timer
startTimer_getTimer(w) ==
    /\ req[w].pc = "st_timer"
    /\ IF Has(createKey(<<"active_timer", req[w].indexed>>))
       THEN Respond(w, [op |-> "startTimer", user |-> req[w].user,
                        status |-> "BadRequest",
                        error |-> "User already has an active timer",
                        began |-> req[w].began, running |-> TRUE])
       ELSE /\ req' = [req EXCEPT ![w].pc = "st_member"]
            /\ UNCHANGED log
    /\ UNCHANGED <<kv, now, nextId, nreq>>

\* handlers/timers.ts startTimer: the membership check
startTimer_getMember(w) ==
    /\ req[w].pc = "st_member"
    /\ IF Has(createKey(<<"project_member", req[w].project, req[w].user>>))
       THEN /\ req' = [req EXCEPT ![w].pc = "st_commit"]
            /\ UNCHANGED log
       ELSE Respond(w, [op |-> "startTimer", user |-> req[w].user,
                        status |-> "Forbidden",
                        error |-> "User is not a member of this project",
                        began |-> req[w].began,
                        running |-> getActiveTimerByUser(req[w].user) # {}])
    /\ UNCHANGED <<kv, now, nextId, nreq>>

\* handlers/timers.ts startTimer: db.startTimer commits
startTimer_commit(w) ==
    /\ req[w].pc = "st_commit"
    /\ startTimer(w, req[w].user, req[w].project, "startTimer", req[w].began)
    /\ UNCHANGED <<now, nreq>>

\* api.ts _handleStartTimer: db.startTimer with no check before it
handleStartTimer(w, u, p) ==
    /\ Accept(w)
    /\ nreq' = nreq + 1
    /\ startTimer(w, u, p, "startTimer", Len(log))
    /\ UNCHANGED now

(***************************************************************************)
(* Time entries: db.ts createTimeEntry, getTimeEntryById,                  *)
(* getTimeEntriesByUser; handlers/timeEntries.ts createTimeEntry; api.ts   *)
(* handleCreateTimeEntry.                                                  *)
(***************************************************************************)
\* the hours and dates a createTimeEntry request carries
HoursInputs == {1, 3}
DateInputs == {0, 1}

\* db.createTimeEntry: atomic.set of the entry, its user index, its project index
createTimeEntrySetsNoUserIndex(entry) ==
    (createKey(<<"time", entry.id>>) :> entry)
    @@ (createKey(<<"time_project", entry.projectId, entry.date, entry.id>>)
            :> [entryId |-> entry.id])

createTimeEntrySets(entry) ==
    (createKey(<<"time", entry.id>>) :> entry)
    @@ (createKey(<<"time_user", entry.userId, entry.date, entry.id>>)
            :> [entryId |-> entry.id])
    @@ (createKey(<<"time_project", entry.projectId, entry.date, entry.id>>)
            :> [entryId |-> entry.id])

\* handlers/timeEntries.ts createTimeEntry: the membership check, then the
\* TimeEntry object with costImpact = hours * member.hourlyRate
createTimeEntry_getMember(w, u, p, h, d) ==
    /\ Accept(w)
    /\ nreq' = nreq + 1
    /\ IF Has(createKey(<<"project_member", p, u>>))
       THEN /\ req' = [req EXCEPT ![w] =
                  [pc |-> "ce_commit", op |-> "createTimeEntry", user |-> u,
                   rate |-> kv[createKey(<<"project_member", p, u>>)].hourlyRate,
                   entry |-> [id |-> nextId, projectId |-> p, userId |-> u,
                              hours |-> h,
                              costImpact |->
                                  Cost(h, kv[createKey(<<"project_member", p, u>>)].hourlyRate),
                              date |-> d, isActive |-> FALSE,
                              updatedAt |-> now]]]
            /\ nextId' = nextId + 1
            /\ UNCHANGED log
       ELSE /\ Respond(w, [op |-> "createTimeEntry", user |-> u,
                           status |-> "Forbidden",
                           error |-> "User is not a member of this project"])
            /\ UNCHANGED nextId
    /\ UNCHANGED <<kv, now>>

\* handlers/timeEntries.ts createTimeEntry: db.createTimeEntry commits.  In the
\* response, rate (the member rate the handler read) and budgetBefore and
\* budgetAfter (the project's remainingBudget around the commit) are history.
createTimeEntry_commit(w) ==
    /\ req[w].pc = "ce_commit"
    /\ kv' = Applied(createTimeEntrySets(req[w].entry), {})
    /\ Respond(w, [op |-> "createTimeEntry", user |-> req[w].user,
                   status |-> "Created", error |-> "", entry |-> req[w].entry,
                   rate |-> req[w].rate,
                   budgetBefore |-> RemainingBudget(kv, req[w].entry.projectId),
                   budgetAfter |-> RemainingBudget(kv', req[w].entry.projectId)])
    /\ UNCHANGED <<now, nextId, nreq>>

\* getTimeEntryById on one snapshot of the store: the set holding the entry,
\* or the empty set for null
getTimeEntryById(id) ==
    IF Has(createKey(<<"time", id>>)) THEN {kv[createKey(<<"time", id>>)]} ELSE {}

\* a scan that leaves out the entries dated endDate
getTimeEntriesByUserBeforeEnd(userId, startDate, endDate) ==
    {kv[createKey(<<"time", kv[k].entryId>>)] :
        k \in {j \in List(createKey(<<"time_user", userId>>)) :
                  /\ j[3] >= startDate
                  /\ j[3] < endDate
                  /\ Has(createKey(<<"time", kv[j].entryId>>))}}

\* getTimeEntriesByUser on one snapshot of the store: the entries the
\* time_user index of the user points to whose key date lies in the range
getTimeEntriesByUser(userId, startDate, endDate) ==
    {kv[createKey(<<"time", kv[k].entryId>>)] :
        k \in {j \in List(createKey(<<"time_user", userId>>)) :
                  /\ j[3] >= startDate
                  /\ j[3] <= endDate
                  /\ Has(createKey(<<"time", kv[j].entryId>>))}}

(***************************************************************************)
(* Stopping a timer: handlers/timers.ts stopTimer, db.ts stopTimer.        *)
(***************************************************************************)
\* db.stopTimer: atomic.set of the time entry and its two indexes
stopTimerSets(timeEntry) ==
    (createKey(<<"time", timeEntry.id>>) :> timeEntry)
    @@ (createKey(<<"time_user", timeEntry.userId, timeEntry.date, timeEntry.id>>)
            :> [entryId |-> timeEntry.id])
    @@ (createKey(<<"time_project", timeEntry.projectId, timeEntry.date, timeEntry.id>>)
            :> [entryId |-> timeEntry.id])

\* a commit that leaves the timer record in place
stopTimerDeletesKeepTimer(timer) ==
    {createKey(<<"active_timer_user", timer.userId>>),
     createKey(<<"active_timer_project", timer.projectId, timer.id>>)}

\* a commit that leaves the singleton index in place
stopTimerDeletesKeepUserIndex(timer) ==
    {createKey(<<"active_timer", timer.id>>),
     createKey(<<"active_timer_project", timer.projectId, timer.id>>)}

\* db.stopTimer: atomic.delete of the timer and its two indexes
stopTimerDeletes(timer) ==
    {createKey(<<"active_timer", timer.id>>),
     createKey(<<"active_timer_user", timer.userId>>),
     createKey(<<"active_timer_project", timer.projectId, timer.id>>)}

\* the timer ids a stop request may carry: those of the stored timers, and
\* one that is no timer's
TimerIdInputs == {k[2] : k \in List(<<"active_timer">>)} \cup {0}

\* a handler that stops the running timer whatever id the request carries
TimerUnmatched(activeTimerId, timerId) == TRUE

\* activeTimer.id !== timerId is refused
TimerMatches(activeTimerId, timerId) == activeTimerId = timerId

\* handlers/timers.ts stopTimer: getActiveTimerByUser reads the user index
stopTimer_getIndex(w, u, timerId) ==
    /\ Accept(w)
    /\ nreq' = nreq + 1
    /\ IF Has(createKey(<<"active_timer_user", u>>))
       THEN /\ req' = [req EXCEPT ![w] =
                  [pc |-> "sp_timer", op |-> "stopTimer", user |-> u,
                   timerId |-> timerId,
                   indexed |-> kv[createKey(<<"active_timer_user", u>>)].timerId]]
            /\ UNCHANGED log
       ELSE Respond(w, [op |-> "stopTimer", user |-> u, status |-> "NotFound",
                        error |-> "Timer not found or not active"])
    /\ UNCHANGED <<kv, now, nextId>>

\* handlers/timers.ts stopTimer: getActiveTimerByUser reads the timer
stopTimer_getTimer(w) ==
    /\ req[w].pc = "sp_timer"
    /\ IF /\ Has(createKey(<<"active_timer", req[w].indexed>>))
          /\ TimerMatches(req[w].indexed, req[w].timerId)
       THEN /\ req' = [req EXCEPT ![w] =
                  [pc |-> "sp_member", op |-> "stopTimer", user |-> req[w].user,
                   timer |-> kv[createKey(<<"active_timer", req[w].indexed>>)]]]
            /\ UNCHANGED log
       ELSE Respond(w, [op |-> "stopTimer", user |-> req[w].user,
                        status |-> "NotFound",
                        error |-> "Timer not found or not active"])
    /\ UNCHANGED <<kv, now, nextId, nreq>>

\* handlers/timers.ts stopTimer: the membership check; then db.stopTimer
\* starts, reads the clock and computes the hours
stopTimer_getMember(w) ==
    /\ req[w].pc = "sp_member"
    /\ IF /\ Has(createKey(<<"project_member", req[w].timer.projectId, req[w].user>>))
          /\ ~ (/\ req[w].user # req[w].timer.userId
                /\ kv[createKey(<<"project_member", req[w].timer.projectId,
                                  req[w].user>>)].role # "ADMIN")
       THEN /\ req' = [req EXCEPT ![w] =
                  [pc |-> "sp_db_member", op |-> "stopTimer", user |-> req[w].user,
                   timer |-> req[w].timer,
                   hours |-> now - req[w].timer.startedAt]]
            /\ UNCHANGED log
       ELSE Respond(w, [op |-> "stopTimer", user |-> req[w].user,
                        status |-> "Forbidden",
                        error |-> "Not authorized to stop this timer"])
    /\ UNCHANGED <<kv, now, nextId, nreq>>

\* a db.stopTimer that takes the rate of a missing member as 0 and goes on
stopTimer_db_getMemberUnchecked(w) ==
    LET key == createKey(<<"project_member", req[w].timer.projectId,
                           req[w].timer.userId>>)
        rate == IF Has(key) THEN kv[key].hourlyRate ELSE 0
    IN
    /\ req[w].pc = "sp_db_member"
    /\ req' = [req EXCEPT ![w] =
          [pc |-> "sp_commit", op |-> "stopTimer", user |-> req[w].user,
           timer |-> req[w].timer, rate |-> rate,
           entry |-> [id |-> nextId, projectId |-> req[w].timer.projectId,
                      userId |-> req[w].timer.userId, hours |-> req[w].hours,
                      costImpact |-> Cost(req[w].hours, rate),
                      date |-> req[w].timer.startedAt, isActive |-> FALSE,
                      updatedAt |-> req[w].timer.startedAt + req[w].hours]]]
    /\ nextId' = nextId + 1
    /\ UNCHANGED <<kv, now, log, nreq>>

\* db.stopTimer: getProjectMember for the hourly rate; the TimeEntry object
stopTimer_db_getMember(w) ==
    /\ req[w].pc = "sp_db_member"
    /\ IF Has(createKey(<<"project_member", req[w].timer.projectId, req[w].timer.userId>>))
       THEN /\ req' = [req EXCEPT ![w] =
                  [pc |-> "sp_commit", op |-> "stopTimer", user |-> req[w].user,
                   timer |-> req[w].timer,
                   rate |-> kv[createKey(<<"project_member", req[w].timer.projectId,
                                           req[w].timer.userId>>)].hourlyRate,
                   entry |-> [id |-> nextId,
                              projectId |-> req[w].timer.projectId,
                              userId |-> req[w].timer.userId,
                              hours |-> req[w].hours,
                              costImpact |->
                                  Cost(req[w].hours,
                                       kv[createKey(<<"project_member",
                                                      req[w].timer.projectId,
                                                      req[w].timer.userId>>)].hourlyRate),
                              date |-> req[w].timer.startedAt,
                              isActive |-> FALSE,
                              updatedAt |-> req[w].timer.startedAt + req[w].hours]]]
            /\ nextId' = nextId + 1
            /\ UNCHANGED log
       ELSE /\ Respond(w, [op |-> "stopTimer", user |-> req[w].user,
                           status |-> "InternalServerError",
                           error |-> "User is not a member of this project"])
            /\ UNCHANGED nextId
    /\ UNCHANGED <<kv, now, nreq>>

\* db.stopTimer: the atomic commit of the entry, its indexes and the deletes.
\* In the response, timer (the timer stopped), rate, budgetBefore and
\* budgetAfter are history.
stopTimer_commit(w) ==
    /\ req[w].pc = "sp_commit"
    /\ kv' = Applied(stopTimerSets(req[w].entry), stopTimerDeletes(req[w].timer))
    /\ Respond(w, [op |-> "stopTimer", user |-> req[w].user, status |-> "OK",
                   error |-> "", entry |-> req[w].entry, timer |-> req[w].timer,
                   rate |-> req[w].rate,
                   budgetBefore |-> RemainingBudget(kv, req[w].timer.projectId),
                   budgetAfter |-> RemainingBudget(kv', req[w].timer.projectId)])
    /\ UNCHANGED <<now, nextId, nreq>>

(***************************************************************************)
(* The budget: db.ts updateProjectBudget, completeTimeEntry;               *)
(* handlers/budget.ts updateBudget; handlers/timeEntries.ts                *)
(* completeTimeEntry.                                                      *)
(***************************************************************************)
\* the amounts an updateBudget request carries
AmountInputs == {-100, 50}

\* the entry ids a completeTimeEntry request may carry: those of the stored
\* entries, and one that is no entry's
EntryIdInputs == {k[2] : k \in List(<<"time">>)} \cup {0}

\* project.value.remainingBudget += amount
BudgetAdjusted(project, amount) ==
    [project EXCEPT !.remainingBudget = @ + amount]

\* db.updateProjectBudget: kv.get of the project
updateProjectBudget_get(w) ==
    /\ req[w].pc = "ub_get"
    /\ IF Has(createKey(<<"project", req[w].project>>))
       THEN /\ req' = [req EXCEPT ![w].pc = "ub_set",
                                  ![w].read = kv[createKey(<<"project", req[w].project>>)]]
            /\ UNCHANGED log
       ELSE Respond(w, [req[w].response EXCEPT !.applied = FALSE])
    /\ UNCHANGED <<kv, now, nextId, nreq>>

\* db.updateProjectBudget: kv.set of the project read, with the amount added
updateProjectBudget_set(w) ==
    /\ req[w].pc = "ub_set"
    /\ kv' = Applied(createKey(<<"project", req[w].project>>)
                        :> BudgetAdjusted(req[w].read, req[w].amount), {})
    /\ Respond(w, req[w].response)
    /\ UNCHANGED <<now, nextId, nreq>>

\* handlers/budget.ts updateBudget: the role check
updateBudget_getMember(w, u, p, amount) ==
    /\ Accept(w)
    /\ nreq' = nreq + 1
    /\ IF /\ Has(createKey(<<"project_member", p, u>>))
          /\ kv[createKey(<<"project_member", p, u>>)].role \in {"OWNER", "ADMIN"}
       THEN /\ req' = [req EXCEPT ![w] =
                  [pc |-> "ub_get", op |-> "updateBudget", user |-> u,
                   project |-> p, amount |-> amount, read |-> << >>,
                   response |-> [op |-> "updateBudget", user |-> u,
                                 status |-> "OK", error |-> "", project |-> p,
                                 amount |-> amount, applied |-> TRUE]]]
            /\ UNCHANGED log
       ELSE Respond(w, [op |-> "updateBudget", user |-> u, status |-> "Forbidden",
                        error |-> "Not authorized to update budget"])
    /\ UNCHANGED <<kv, now, nextId>>

\* a handler that goes on with an entry it did not find
completeTimeEntry_getEntryUnchecked(w, u, entryId) ==
    /\ Accept(w)
    /\ nreq' = nreq + 1
    /\ req' = [req EXCEPT ![w] =
          [pc |-> "ct_auth", op |-> "completeTimeEntry", user |-> u,
           entryId |-> entryId,
           entry |-> IF Has(createKey(<<"time", entryId>>))
                     THEN kv[createKey(<<"time", entryId>>)]
                     ELSE [id |-> entryId, userId |-> u, projectId |-> 10,
                           hours |-> 0, costImpact |-> 0, date |-> 0,
                           isActive |-> TRUE, updatedAt |-> now]]]
    /\ UNCHANGED <<kv, now, nextId, log>>

\* handlers/timeEntries.ts completeTimeEntry: getTimeEntryById
completeTimeEntry_getEntry(w, u, entryId) ==
    /\ Accept(w)
    /\ nreq' = nreq + 1
    /\ IF Has(createKey(<<"time", entryId>>))
       THEN /\ req' = [req EXCEPT ![w] =
                  [pc |-> "ct_auth", op |-> "completeTimeEntry", user |-> u,
                   entryId |-> entryId,
                   entry |-> kv[createKey(<<"time", entryId>>)]]]
            /\ UNCHANGED log
       ELSE Respond(w, [op |-> "completeTimeEntry", user |-> u,
                        status |-> "NotFound", error |-> "Time entry not found"])
    /\ UNCHANGED <<kv, now, nextId>>

\* handlers/timeEntries.ts completeTimeEntry: the entry's owner, or an owner
\* or admin of its project
completeTimeEntry_getMember(w) ==
    /\ req[w].pc = "ct_auth"
    /\ IF \/ req[w].entry.userId = req[w].user
          \/ /\ Has(createKey(<<"project_member", req[w].entry.projectId, req[w].user>>))
             /\ kv[createKey(<<"project_member", req[w].entry.projectId,
                               req[w].user>>)].role \in {"OWNER", "ADMIN"}
       THEN /\ req' = [req EXCEPT ![w].pc = "ct_db_entry"]
            /\ UNCHANGED log
       ELSE Respond(w, [op |-> "completeTimeEntry", user |-> req[w].user,
                        status |-> "Forbidden",
                        error |-> "Not authorized to complete time entries"])
    /\ UNCHANGED <<kv, now, nextId, nreq>>

\* db.completeTimeEntry: getTimeEntryById
completeTimeEntry_db_getEntry(w) ==
    /\ req[w].pc = "ct_db_entry"
    /\ IF Has(createKey(<<"time", req[w].entryId>>))
       THEN /\ req' = [req EXCEPT ![w].pc = "ct_db_member",
                                  ![w].entry = kv[createKey(<<"time", req[w].entryId>>)]]
            /\ UNCHANGED log
       ELSE Respond(w, [op |-> "completeTimeEntry", user |-> req[w].user,
                        status |-> "InternalServerError",
                        error |-> "Time entry not found"])
    /\ UNCHANGED <<kv, now, nextId, nreq>>

\* db.completeTimeEntry: getProjectMember; the updated entry, with
\* costImpact = timeEntry.hours * member.hourlyRate and updatedAt the time of
\* the call
completeTimeEntry_db_getMember(w) ==
    /\ req[w].pc = "ct_db_member"
    /\ IF Has(createKey(<<"project_member", req[w].entry.projectId, req[w].entry.userId>>))
       THEN /\ req' = [req EXCEPT
                  ![w].pc = "ct_db_set",
                  ![w].entry =
                      [req[w].entry EXCEPT
                          !.isActive = FALSE,
                          !.updatedAt = now,
                          !.costImpact =
                              Cost(req[w].entry.hours,
                                   kv[createKey(<<"project_member",
                                                  req[w].entry.projectId,
                                                  req[w].entry.userId>>)].hourlyRate)]]
            /\ UNCHANGED log
       ELSE Respond(w, [op |-> "completeTimeEntry", user |-> req[w].user,
                        status |-> "InternalServerError",
                        error |-> "User is not a member of this project"])
    /\ UNCHANGED <<kv, now, nextId, nreq>>

\* db.completeTimeEntry: the key the updated entry is written under
completeTimeEntryKey(timeEntryId) == createKey(<<"timeEntries", timeEntryId>>)

\* db.completeTimeEntry: kv.set of the updated entry
completeTimeEntry_db_set(w) ==
    /\ req[w].pc = "ct_db_set"
    /\ kv' = Applied(completeTimeEntryKey(req[w].entryId) :> req[w].entry, {})
    /\ req' = [req EXCEPT ![w].pc = "ct_db_project"]
    /\ UNCHANGED <<now, nextId, log, nreq>>

\* db.completeTimeEntry: getProjectById, then updateProjectBudget(-costImpact)
completeTimeEntry_db_getProject(w) ==
    /\ req[w].pc = "ct_db_project"
    /\ IF Has(createKey(<<"project", req[w].entry.projectId>>))
       THEN /\ req' = [req EXCEPT ![w] =
                  [pc |-> "ub_get", op |-> "completeTimeEntry", user |-> req[w].user,
                   project |-> req[w].entry.projectId,
                   amount |-> 0 - req[w].entry.costImpact, read |-> << >>,
                   response |-> [op |-> "completeTimeEntry", user |-> req[w].user,
                                 status |-> "OK", error |-> "",
                                 project |-> req[w].entry.projectId,
                                 amount |-> 0 - req[w].entry.costImpact,
                                 applied |-> TRUE, entry |-> req[w].entry]]]
            /\ UNCHANGED log
       ELSE Respond(w, [op |-> "completeTimeEntry", user |-> req[w].user,
                        status |-> "InternalServerError",
                        error |-> "Project not found"])
    /\ UNCHANGED <<kv, now, nextId, nreq>>

(***************************************************************************)
(* Projects: handlers/projects.ts createProject, inviteMember;             *)
(* handlers/budget.ts createProfitShare; db.ts createProject,              *)
(* createProjectMember, createProjectInvitation, createProfitShare,        *)
(* deleteProject.                                                          *)
(***************************************************************************)
\* the budgets and profit sharing flags a create-project request carries
BudgetInputs == {100}

\* the Project object the createProject handler builds; the percentage is
\* kept in tenths, and projectData.profitSharingPercentage || 0.1 is one tenth
NewProject(u, budget, sharing) ==
    [id |-> nextId, budget |-> budget, remainingBudget |-> budget, ownerId |-> u,
     profitSharingEnabled |-> sharing, profitSharingPercentage |-> 1,
     bonusPool |-> 0]

\* db.createProject: atomic.set of the project and of the owner index
createProjectSets(project) ==
    (createKey(<<"project", project.id>>) :> project)
    @@ (createKey(<<"project_owner", project.ownerId, project.id>>)
            :> [projectId |-> project.id])

\* db.createProjectMember: atomic.set of the member, the member index and,
\* for an owner, the owner index
createProjectMemberSets(member) ==
    (createKey(<<"project_member", member.projectId, member.userId>>) :> member)
    @@ (createKey(<<"project_member_index", member.projectId, member.role,
                    member.userId>>)
            :> [userId |-> member.userId, role |-> member.role])
    @@ (IF member.role = "OWNER"
        THEN createKey(<<"project_owner", member.userId, member.projectId>>)
                 :> [projectId |-> member.projectId]
        ELSE createKey(<<"project_member", member.projectId, member.userId>>)
                 :> member)

\* handlers/projects.ts createProject: the Project object, db.createProject
createProject_commit(w, u, budget, sharing) ==
    /\ Accept(w)
    /\ nreq' = nreq + 1
    /\ kv' = Applied(createProjectSets(NewProject(u, budget, sharing)), {})
    /\ req' = [req EXCEPT ![w] =
          [pc |-> "cp_member", op |-> "createProject", user |-> u,
           project |-> NewProject(u, budget, sharing),
           member |-> [projectId |-> nextId, userId |-> u, role |-> "OWNER",
                       hourlyRate |-> kv[createKey(<<"user", u>>)].hourlyRate,
                       totalHours |-> 0]]]
    /\ nextId' = nextId + 1
    /\ UNCHANGED <<now, log>>

\* handlers/projects.ts createProject: db.createProjectMember for the owner
createProject_createMember(w) ==
    /\ req[w].pc = "cp_member"
    /\ kv' = Applied(createProjectMemberSets(req[w].member), {})
    /\ Respond(w, [op |-> "createProject", user |-> req[w].user,
                   status |-> "Created", error |-> "", project |-> req[w].project])
    /\ UNCHANGED <<now, nextId, nreq>>

\* handlers/projects.ts inviteMember: the role check, the invitation object
inviteMember_getMember(w, u, p, email) ==
    /\ Accept(w)
    /\ nreq' = nreq + 1
    /\ IF /\ Has(createKey(<<"project_member", p, u>>))
          /\ kv[createKey(<<"project_member", p, u>>)].role \in {"OWNER", "ADMIN"}
       THEN /\ req' = [req EXCEPT ![w] =
                  [pc |-> "iv_set", op |-> "inviteMember", user |-> u,
                   invitation |-> [id |-> nextId, projectId |-> p, inviterId |-> u,
                                   inviteeEmail |-> email, status |-> "PENDING",
                                   role |-> "MEMBER", hourlyRate |-> 0]]]
            /\ nextId' = nextId + 1
            /\ UNCHANGED log
       ELSE /\ Respond(w, [op |-> "inviteMember", user |-> u, status |-> "Forbidden",
                           error |-> "Not authorized to invite members"])
            /\ UNCHANGED nextId
    /\ UNCHANGED <<kv, now>>

\* db.createProjectInvitation: kv.set of the invitation
createProjectInvitation_set(w) ==
    /\ req[w].pc = "iv_set"
    /\ kv' = Applied(createKey(<<"project_invitation", req[w].invitation.id>>)
                        :> req[w].invitation, {})
    /\ req' = [req EXCEPT ![w].pc = "iv_index"]
    /\ UNCHANGED <<now, nextId, log, nreq>>

\* db.createProjectInvitation: kv.set of the email index
createProjectInvitation_setIndex(w) ==
    /\ req[w].pc = "iv_index"
    /\ kv' = Applied(createKey(<<"project_invitation_email",
                                 req[w].invitation.inviteeEmail,
                                 req[w].invitation.id>>)
                        :> [invitationId |-> req[w].invitation.id], {})
    /\ Respond(w, [op |-> "inviteMember", user |-> req[w].user,
                   status |-> "Created", error |-> "",
                   invitation |-> req[w].invitation])
    /\ UNCHANGED <<now, nextId, nreq>>

\* the ids and amounts a create-profit-share request body carries
ShareIdInputs == {1, 2}

\* handlers/budget.ts createProfitShare: the project, its owner, the share
createProfitShare_getProject(w, u, p, id) ==
    /\ Accept(w)
    /\ nreq' = nreq + 1
    /\ IF ~Has(createKey(<<"project", p>>))
       THEN /\ Respond(w, [op |-> "createProfitShare", user |-> u,
                           status |-> "NotFound", error |-> "Project not found"])
       ELSE IF kv[createKey(<<"project", p>>)].ownerId # u
       THEN /\ Respond(w, [op |-> "createProfitShare", user |-> u,
                           status |-> "Forbidden",
                           error |-> "Only project owner can create profit shares"])
       ELSE /\ req' = [req EXCEPT ![w] =
                  [pc |-> "ps_set", op |-> "createProfitShare", user |-> u,
                   share |-> [id |-> id, projectId |-> p, userId |-> u,
                              amount |-> 10, status |-> "PENDING"]]]
            /\ UNCHANGED log
    /\ UNCHANGED <<kv, now, nextId>>

\* db.createProfitShare: kv.set of the share
createProfitShare_set(w) ==
    /\ req[w].pc = "ps_set"
    /\ kv' = Applied(createKey(<<"profit_share", req[w].share.id>>) :> req[w].share, {})
    /\ req' = [req EXCEPT ![w].pc = "ps_index"]
    /\ UNCHANGED <<now, nextId, log, nreq>>

\* db.createProfitShare: kv.set of the project index
createProfitShare_setIndex(w) ==
    /\ req[w].pc = "ps_index"
    /\ kv' = Applied(createKey(<<"profit_share_project", req[w].share.projectId,
                                 req[w].share.id>>)
                        :> [shareId |-> req[w].share.id], {})
    /\ Respond(w, [op |-> "createProfitShare", user |-> req[w].user,
                   status |-> "Created", error |-> ""])
    /\ UNCHANGED <<now, nextId, nreq>>

\* db.deleteProject: kv.get of the project
deleteProject_get(w, p) ==
    /\ Accept(w)
    /\ nreq' = nreq + 1
    /\ IF Has(createKey(<<"project", p>>))
       THEN /\ req' = [req EXCEPT ![w] =
                  [pc |-> "dl_project", op |-> "deleteProject", project |-> p,
                   existing |-> kv[createKey(<<"project", p>>)]]]
            /\ UNCHANGED log
       ELSE Respond(w, [op |-> "deleteProject", project |-> p, status |-> "Error",
                        error |-> "Project not found"])
    /\ UNCHANGED <<kv, now, nextId>>

\* db.deleteProject: kv.delete of the project
deleteProject_delete(w) ==
    /\ req[w].pc = "dl_project"
    /\ kv' = Applied(<< >>, {createKey(<<"project", req[w].project>>)})
    /\ req' = [req EXCEPT ![w].pc = "dl_owner"]
    /\ UNCHANGED <<now, nextId, log, nreq>>

\* db.deleteProject: kv.delete of the owner index
deleteProject_deleteOwner(w) ==
    /\ req[w].pc = "dl_owner"
    /\ kv' = Applied(<< >>, {createKey(<<"project_owner", req[w].existing.ownerId,
                                         req[w].project>>)})
    /\ Respond(w, [op |-> "deleteProject", project |-> req[w].project,
                   status |-> "OK", error |-> ""])
    /\ UNCHANGED <<now, nextId, nreq>>

\* the bodies a PUT project request carries
UpdateInputs == {[budget |-> 200], [remainingBudget |-> 5]}

\* { ...project, ...updates }
Spread(project, updates) ==
    [f \in DOMAIN project \cup DOMAIN updates |->
        IF f \in DOMAIN updates THEN updates[f] ELSE project[f]]

\* handlers/projects.ts updateProject: the role check
updateProject_getMember(w, u, p, updates) ==
    /\ Accept(w)
    /\ nreq' = nreq + 1
    /\ IF /\ Has(createKey(<<"project_member", p, u>>))
          /\ kv[createKey(<<"project_member", p, u>>)].role \in {"OWNER", "ADMIN"}
       THEN /\ req' = [req EXCEPT ![w] =
                  [pc |-> "up_project", op |-> "updateProject", user |-> u,
                   project |-> p, updates |-> updates]]
            /\ UNCHANGED log
       ELSE Respond(w, [op |-> "updateProject", user |-> u, status |-> "Forbidden",
                        error |-> "Not authorized to update project"])
    /\ UNCHANGED <<kv, now, nextId>>

\* handlers/projects.ts updateProject: getProjectById, the updated project
updateProject_getProject(w) ==
    /\ req[w].pc = "up_project"
    /\ IF Has(createKey(<<"project", req[w].project>>))
       THEN /\ req' = [req EXCEPT ![w] =
                  [pc |-> "up_db_get", op |-> "updateProject", user |-> req[w].user,
                   project |-> req[w].project,
                   updatedProject |->
                       Spread(kv[createKey(<<"project", req[w].project>>)],
                              req[w].updates)]]
            /\ UNCHANGED log
       ELSE Respond(w, [op |-> "updateProject", user |-> req[w].user,
                        status |-> "NotFound", error |-> "Project not found"])
    /\ UNCHANGED <<kv, now, nextId, nreq>>

\* db.updateProject: kv.get of the existing project
updateProject_db_get(w) ==
    /\ req[w].pc = "up_db_get"
    /\ IF Has(createKey(<<"project", req[w].updatedProject.id>>))
       THEN /\ req' = [req EXCEPT ![w].pc = "up_db_set"]
            /\ UNCHANGED log
       ELSE Respond(w, [op |-> "updateProject", user |-> req[w].user,
                        status |-> "InternalServerError",
                        error |-> "Project not found"])
    /\ UNCHANGED <<kv, now, nextId, nreq>>

\* db.updateProject: kv.set of the project
updateProject_db_set(w) ==
    /\ req[w].pc = "up_db_set"
    /\ kv' = Applied(createKey(<<"project", req[w].updatedProject.id>>)
                        :> req[w].updatedProject, {})
    /\ Respond(w, [op |-> "updateProject", user |-> req[w].user, status |-> "OK",
                   error |-> "", project |-> req[w].updatedProject])
    /\ UNCHANGED <<now, nextId, nreq>>

(***************************************************************************)
(* Profit distribution: handlers/financials.ts distributeProjectProfits,   *)
(* db.ts distributeProjectProfits.                                         *)
(*                                                                         *)
(* A JavaScript number is a record [nan, v]: NaN, or the number v.  A      *)
(* property read is the set of its results: empty when the object has no   *)
(* such property (undefined), and ToNumber(undefined) is NaN.              *)
(***************************************************************************)
NaN == [nan |-> TRUE, v |-> 0]

Num(n) == [nan |-> FALSE, v |-> n]

\* object.field
JsGet(object, field) ==
    IF field \in DOMAIN object THEN {object[field]} ELSE {}

\* ToNumber of a property read
ToNumber(read) == IF read = {} THEN NaN ELSE Num(CHOOSE n \in read : TRUE)

\* a + b
JsAdd(a, b) == IF a.nan \/ b.nan THEN NaN ELSE Num(a.v + b.v)

\* a === b on numbers: NaN equals nothing
JsStrictEquals(a, b) == ~a.nan /\ ~b.nan /\ a.v = b.v

\* sum * project.profitSharingPercentage, the percentage in tenths
JsTimesPercentage(sum, tenths) ==
    IF sum.nan THEN NaN ELSE Num((sum.v * tenths) \div 10)

\* (hours / totalHours) * totalProfit; totalHours is not 0 where it is used
JsShare(hours, totalHours, totalProfit) ==
    IF hours.nan \/ totalHours.nan \/ totalProfit.nan \/ totalHours.v = 0 THEN NaN
    ELSE Num((hours.v * totalProfit.v) \div totalHours.v)

\* the sum of ToNumber(value.field) over the values a scan returned, by key
RECURSIVE JsSumField(_, _, _)
JsSumField(values, keys, field) ==
    IF keys = {} THEN Num(0)
    ELSE LET k == CHOOSE j \in keys : TRUE
         IN  JsAdd(JsSumField(values, keys \ {k}, field),
                   ToNumber(JsGet(values[k], field)))

SharingUnchecked(project) == TRUE

\* if (!project.profitSharingEnabled) throw
SharingChecked(project) == project.profitSharingEnabled

\* the project ids a distribute-profits request names: a project with profit
\* sharing, one without, and no project
ProfitProjects == {10, 11}

ProjectIdInputs == ProfitProjects \cup {12}

\* handlers/financials.ts distributeProjectProfits: the project, its owner
distributeProjectProfits_getProject(w, u, p) ==
    /\ Accept(w)
    /\ nreq' = nreq + 1
    /\ IF ~Has(createKey(<<"project", p>>))
       THEN Respond(w, [op |-> "distributeProjectProfits", user |-> u, project |-> p,
                        status |-> "NotFound", error |-> "Project not found",
                        found |-> FALSE, enabled |-> {}])
       ELSE IF kv[createKey(<<"project", p>>)].ownerId # u
       THEN Respond(w, [op |-> "distributeProjectProfits", user |-> u, project |-> p,
                        status |-> "Forbidden",
                        error |-> "Only project owner can distribute profits",
                        found |-> TRUE, enabled |-> {}])
       ELSE /\ req' = [req EXCEPT ![w] =
                  [pc |-> "dp_db_project", op |-> "distributeProjectProfits",
                   user |-> u, project |-> p]]
            /\ UNCHANGED log
    /\ UNCHANGED <<kv, now, nextId>>

\* db.distributeProjectProfits: getProjectById, the profit sharing flag.  In
\* the responses, found and enabled (what the deciding read saw) are history.
distributeProjectProfits_db_getProject(w) ==
    /\ req[w].pc = "dp_db_project"
    /\ IF ~Has(createKey(<<"project", req[w].project>>))
       THEN Respond(w, [op |-> "distributeProjectProfits", user |-> req[w].user,
                        project |-> req[w].project,
                        status |-> "InternalServerError",
                        error |-> "Project not found",
                        found |-> FALSE, enabled |-> {}])
       ELSE IF ~SharingChecked(kv[createKey(<<"project", req[w].project>>)])
       THEN Respond(w, [op |-> "distributeProjectProfits", user |-> req[w].user,
                        project |-> req[w].project,
                        status |-> "InternalServerError",
                        error |-> "Profit sharing is not enabled for this project",
                        found |-> TRUE, enabled |-> {FALSE}])
       ELSE /\ req' = [req EXCEPT ![w] =
                  [pc |-> "dp_list", op |-> "distributeProjectProfits",
                   user |-> req[w].user, project |-> req[w].project,
                   enabled |->
                       {kv[createKey(<<"project", req[w].project>>)].profitSharingEnabled},
                   percentage |->
                       kv[createKey(<<"project", req[w].project>>)].profitSharingPercentage]]
            /\ UNCHANGED log
    /\ UNCHANGED <<kv, now, nextId, nreq>>

\* the position of index key k among the keys a scan returned
Rank(k, keys) == Cardinality({j \in keys : kv[j].entryId < kv[k].entryId}) + 1

\* the Earnings objects of one run, one for every distribution
NewEarnings(distributions, projectId, payPeriodId) ==
    {[id |-> payPeriodId + Rank(k, DOMAIN distributions),
      userId |-> distributions[k].userId,
      projectId |-> projectId,
      payPeriodId |-> payPeriodId,
      regularHours |-> 0,
      regularEarnings |-> 0,
      bonusEarnings |-> distributions[k].amount,
      totalEarnings |-> distributions[k].amount] : k \in DOMAIN distributions}

EarningsKeys(e) ==
    {createKey(<<"earnings", e.id>>),
     createKey(<<"earnings_user", e.userId, e.payPeriodId, e.id>>),
     createKey(<<"earnings_project", e.projectId, e.payPeriodId, e.id>>)}

\* a run that writes the index entries only
distributeProjectProfitsSetsNoRecord(earnings) ==
    [k \in UNION {EarningsKeys(e) \ {createKey(<<"earnings", e.id>>)} : e \in earnings}
        |-> [earningsId |-> k[4]]]

\* db.distributeProjectProfits: atomic.set of every Earnings object with its
\* user index and its project index
distributeProjectProfitsSets(earnings) ==
    [k \in UNION {EarningsKeys(e) : e \in earnings} |->
        IF k[1] = "earnings"
        THEN CHOOSE e \in earnings : e.id = k[2]
        ELSE [earningsId |-> k[4]]]

\* a key of the write set has a part that is undefined
UndefinedKeyPart(earnings) == \E e \in earnings : e.userId = {}

\* the TimeEntry records the time_project index of a project points to
getTimeEntriesByProject(p) ==
    {kv[createKey(<<"time", kv[k].entryId>>)] :
        k \in {j \in List(createKey(<<"time_project", p>>)) :
                  Has(createKey(<<"time", kv[j].entryId>>))}}

\* db.distributeProjectProfits: the scan of the time_project index, the
\* totals, the distributions and the Earnings objects.  In the request,
\* entries (the TimeEntry records of the project at the scan) is history.
distributeProjectProfits_list(w) ==
    /\ req[w].pc = "dp_list"
    /\ LET keys == List(createKey(<<"time_project", req[w].project>>))
           values == [k \in keys |-> kv[k]]
           totalHours == JsSumField(values, keys, "hours")
           totalProfit ==
               JsTimesPercentage(JsSumField(values, keys, "costImpact"),
                                 req[w].percentage)
           distributions ==
               [k \in keys |->
                   [userId |-> JsGet(values[k], "userId"),
                    amount |-> JsShare(ToNumber(JsGet(values[k], "hours")),
                                       totalHours, totalProfit)]]
       IN  IF JsStrictEquals(totalHours, Num(0))
           THEN /\ Respond(w, [op |-> "distributeProjectProfits",
                               user |-> req[w].user, project |-> req[w].project,
                               status |-> "InternalServerError",
                               error |-> "No time entries found",
                               found |-> TRUE, enabled |-> req[w].enabled,
                               entries |-> getTimeEntriesByProject(req[w].project)])
                /\ UNCHANGED nextId
           ELSE /\ req' = [req EXCEPT ![w] =
                      [pc |-> "dp_commit", op |-> "distributeProjectProfits",
                       user |-> req[w].user, project |-> req[w].project,
                       enabled |-> req[w].enabled,
                       totalHours |-> totalHours,
                       totalProfit |-> totalProfit,
                       earnings |-> NewEarnings(distributions, req[w].project, nextId),
                       entries |-> getTimeEntriesByProject(req[w].project)]]
                /\ nextId' = nextId + 1 + Cardinality(keys)
                /\ UNCHANGED log
    /\ UNCHANGED <<kv, now, nreq>>

\* db.distributeProjectProfits: the atomic commit.  A write set with an
\* undefined key part is either refused by the store with a TypeError or
\* written as it is.  In the responses, entries, totalHours, earnings, and
\* the project's remainingBudget and bonusPool around the commit are history.
distributeProjectProfits_commit(w) ==
    /\ req[w].pc = "dp_commit"
    /\ \/ /\ UndefinedKeyPart(req[w].earnings)
          /\ Respond(w, [op |-> "distributeProjectProfits", user |-> req[w].user,
                         project |-> req[w].project,
                         status |-> "InternalServerError", error |-> "TypeError",
                         found |-> TRUE, enabled |-> req[w].enabled,
                         entries |-> req[w].entries])
          /\ UNCHANGED kv
       \/ /\ kv' = Applied(distributeProjectProfitsSets(req[w].earnings), {})
          /\ Respond(w, [op |-> "distributeProjectProfits", user |-> req[w].user,
                         project |-> req[w].project,
                         status |-> "OK", error |-> "",
                         found |-> TRUE, enabled |-> req[w].enabled,
                         entries |-> req[w].entries,
                         totalHours |-> req[w].totalHours,
                         distributedAmount |-> req[w].totalProfit,
                         earnings |-> req[w].earnings,
                         projectBefore |-> kv[createKey(<<"project", req[w].project>>)],
                         projectAfter |-> kv'[createKey(<<"project", req[w].project>>)]])
    /\ UNCHANGED <<now, nextId, nreq>>

\* the store of the seeded users and project, with a second project of the
\* first user that has a small budget and no profit sharing
ProfitStore ==
    SeedStore
    @@ createProjectSets([id |-> 11, budget |-> 100, remainingBudget |-> 100,
                          ownerId |-> 1, profitSharingEnabled |-> FALSE,
                          profitSharingPercentage |-> 1, bonusPool |-> 0])
    @@ createProjectMemberSets([projectId |-> 11, userId |-> 1, role |-> "OWNER",
                                hourlyRate |-> 100, totalHours |-> 0])

(***************************************************************************)
(* Financial records: handlers/financials.ts createPayPeriod,              *)
(* getPayPeriods, getUserFinancials; db.ts createPayPeriod, getPayPeriods, *)
(* getUserEarnings, createUserFinancialSummary, getUserFinancialSummaries, *)
(* createProjectFinancialSummary, getProjectFinancialSummaries.            *)
(*                                                                         *)
(* A date string is the number of the day it denotes, and the empty string *)
(* (a query parameter that is absent) is NoDate.                           *)
(***************************************************************************)
NoDate == -1

FinanceUsers == Users \cup {3}

\* the id of a request body: absent (undefined), or the id it carries
PayPeriodIdInputs == {{}, {1}, {2}}

\* { ...payPeriodData, userId: user.id, ... }
NewPayPeriod(u, id, startDate, endDate) ==
    [id |-> id, userId |-> u, startDate |-> startDate, endDate |-> endDate]

createPayPeriodKeys(payPeriod) ==
    [key |-> createKey(<<"pay_period", payPeriod.userId, payPeriod.id>>),
     userIndexKey |-> createKey(<<"pay_period_user", payPeriod.userId,
                                  payPeriod.startDate, payPeriod.id>>)]

createPayPeriodSets(payPeriod) ==
    (createPayPeriodKeys(payPeriod).key :> payPeriod)
    @@ (createPayPeriodKeys(payPeriod).userIndexKey :> [payPeriodId |-> payPeriod.id])

\* POST /pay-periods: createPayPeriod commits the record and its index, with
\* no check; a body without an id gives keys with an undefined part, which
\* the store refuses or writes
createPayPeriod_commit(w, u, id, startDate, endDate) ==
    LET payPeriod == NewPayPeriod(u, id, startDate, endDate) IN
    /\ Accept(w)
    /\ nreq' = nreq + 1
    /\ \/ /\ id = {}
          /\ Respond(w, [op |-> "createPayPeriod", userId |-> u,
                         startDate |-> startDate, id |-> id,
                         status |-> "InternalServerError", error |-> "TypeError"])
          /\ UNCHANGED kv
       \/ /\ kv' = Applied(createPayPeriodSets(payPeriod), {})
          /\ Respond(w, [op |-> "createPayPeriod", userId |-> u,
                         startDate |-> startDate, id |-> id,
                         status |-> "Created", error |-> ""])
    /\ UNCHANGED <<now, nextId>>

\* getPayPeriods: the periods of a user whose start lies in [startDate, endDate]
getPayPeriods(userId, startDate, endDate) ==
    {kv[createKey(<<"pay_period", userId, kv[k].payPeriodId>>)] :
        k \in {i \in List(createKey(<<"pay_period_user", userId>>)) :
                  /\ i[3] >= startDate
                  /\ i[3] <= endDate
                  /\ Has(createKey(<<"pay_period", userId, kv[i].payPeriodId>>))}}

\* GET /pay-periods
handleGetPayPeriods(w, u, startDate, endDate) ==
    /\ Accept(w)
    /\ nreq' = nreq + 1
    /\ Respond(w, [op |-> "getPayPeriods", userId |-> u, status |-> "OK",
                   data |-> getPayPeriods(u, startDate, endDate)])
    /\ UNCHANGED <<kv, now, nextId>>

\* a financial summary of a subject (a user or a project) for a period
NewSummary(subject, startDate, endDate) ==
    [id |-> nextId, subject |-> subject,
     period |-> [startDate |-> startDate, endDate |-> endDate]]

userSummaryWritePrefix == "user_summary"
userSummaryReadPrefix == "user_financial_summary"
projectSummaryWritePrefix == "project_summary"
projectSummaryReadPrefix == "project_financial_summary"

\* createUserFinancialSummary: kv.set of the summary under its key
createUserFinancialSummary(w, u, startDate, endDate) ==
    LET summary == NewSummary(u, startDate, endDate) IN
    /\ Accept(w)
    /\ nreq' = nreq + 1
    /\ nextId' = nextId + 1
    /\ kv' = Applied(createKey(<<userSummaryWritePrefix, u, startDate, summary.id>>)
                         :> summary, {})
    /\ Respond(w, [op |-> "createUserFinancialSummary", summary |-> summary,
                   status |-> "OK"])
    /\ UNCHANGED now

\* createProjectFinancialSummary: kv.set of the summary under its key
createProjectFinancialSummary(w, p, startDate, endDate) ==
    LET summary == NewSummary(p, startDate, endDate) IN
    /\ Accept(w)
    /\ nreq' = nreq + 1
    /\ nextId' = nextId + 1
    /\ kv' = Applied(createKey(<<projectSummaryWritePrefix, p, startDate, summary.id>>)
                         :> summary, {})
    /\ Respond(w, [op |-> "createProjectFinancialSummary", summary |-> summary,
                   status |-> "OK"])
    /\ UNCHANGED now

\* the scan and date filter the two summary readers share
ScanSummaries(prefix, subject, startDate, endDate) ==
    {kv[k] : k \in {i \in List(createKey(<<prefix, subject>>)) :
                       IF startDate # NoDate /\ endDate # NoDate
                       THEN /\ kv[i].period.startDate >= startDate
                            /\ kv[i].period.endDate <= endDate
                       ELSE TRUE}}

getUserFinancialSummaries(userId, startDate, endDate) ==
    ScanSummaries(userSummaryReadPrefix, userId, startDate, endDate)

getProjectFinancialSummaries(projectId, startDate, endDate) ==
    ScanSummaries(projectSummaryReadPrefix, projectId, startDate, endDate)

\* getUserEarnings: the earnings of a user in a pay period
getUserEarnings(userId, payPeriodId) ==
    {kv[createKey(<<"earnings", kv[k].earningsId>>)] :
        k \in {i \in List(createKey(<<"earnings_user", userId, payPeriodId>>)) :
                  Has(createKey(<<"earnings", kv[i].earningsId>>))}}

\* if (user.id !== userId) return Forbidden
MayView(requester, userId) == requester = userId

\* GET /users/{userId}/financials
handleGetUserFinancials(w, requester, userId, startDate, endDate) ==
    /\ Accept(w)
    /\ nreq' = nreq + 1
    /\ IF ~MayView(requester, userId)
       THEN Respond(w, [op |-> "getUserFinancials", requester |-> requester,
                        userId |-> userId, status |-> "Forbidden",
                        summaries |-> {}, earnings |-> {}])
       ELSE Respond(w, [op |-> "getUserFinancials", requester |-> requester,
                        userId |-> userId, status |-> "OK",
                        summaries |-> getUserFinancialSummaries(userId, startDate, endDate),
                        earnings |-> getUserEarnings(userId, NoDate)])
    /\ UNCHANGED <<kv, now, nextId>>

\* the seeded store and a third registered user who is in no project
FinanceStore ==
    SeedStore @@ createUserSets([id |-> 3, email |-> "c@x.io", hourlyRate |-> 100])

(***************************************************************************)
(* Responding to an invitation: handlers/projects.ts respondToInvitation,  *)
(* db.ts getProjectInvitation, updateProjectInvitation,                    *)
(* createProjectMember.                                                    *)
(***************************************************************************)
\* the lifetime inviteMember gives an invitation (7 days), in ticks
InvitationTtl == 1

InvitationIdInputs == {50, 51}

\* the invitation inviteMember wrote at time 0 for the third user
SeedInvitation ==
    [id |-> 50, projectId |-> 10, inviterId |-> 1, inviteeEmail |-> "c@x.io",
     status |-> "PENDING", role |-> "MEMBER", hourlyRate |-> 0,
     expiresAt |-> 0 + InvitationTtl]

InviteStore ==
    FinanceStore
    @@ (createKey(<<"project_invitation", SeedInvitation.id>>) :> SeedInvitation)
    @@ (createKey(<<"project_invitation_email", SeedInvitation.inviteeEmail,
                    SeedInvitation.id>>) :> [invitationId |-> SeedInvitation.id])

\* respondToInvitation: getProjectInvitation, the invitee check, the member;
\* neither the status nor the expiry of the invitation is read
respondToInvitation_get(w, u, id, accept) ==
    LET key == createKey(<<"project_invitation", id>>)
        user == kv[createKey(<<"user", u>>)]
        answer(status, error) ==
            [op |-> "respondToInvitation", user |-> u, invitationId |-> id,
             status |-> status, error |-> error]
    IN
    /\ Accept(w)
    /\ nreq' = nreq + 1
    /\ IF ~Has(key)
       THEN /\ Respond(w, answer("NotFound", "Invitation not found"))
       ELSE IF kv[key].inviteeEmail # user.email
       THEN /\ Respond(w, answer("Forbidden",
                                 "Not authorized to respond to this invitation"))
       ELSE /\ req' = [req EXCEPT ![w] =
                  [pc |-> IF accept THEN "rs_member" ELSE "rs_update",
                   op |-> "respondToInvitation", user |-> u, accept |-> accept,
                   invitation |-> kv[key], at |-> now,
                   member |-> [projectId |-> kv[key].projectId, userId |-> u,
                               role |-> kv[key].role,
                               hourlyRate |-> kv[key].hourlyRate,
                               totalHours |-> 0]]]
            /\ UNCHANGED log
    /\ UNCHANGED <<kv, now, nextId>>

\* respondToInvitation: db.createProjectMember when the answer is accept
respondToInvitation_createMember(w) ==
    /\ req[w].pc = "rs_member"
    /\ kv' = Applied(createProjectMemberSets(req[w].member), {})
    /\ req' = [req EXCEPT ![w].pc = "rs_update"]
    /\ UNCHANGED <<now, nextId, log, nreq>>

\* respondToInvitation: db.updateProjectInvitation, kv.set of the invitation
respondToInvitation_update(w) ==
    LET updatedInvitation ==
            [req[w].invitation EXCEPT
                !.status = IF req[w].accept THEN "ACCEPTED" ELSE "DECLINED"]
    IN
    /\ req[w].pc = "rs_update"
    /\ kv' = Applied(createKey(<<"project_invitation", updatedInvitation.id>>)
                         :> updatedInvitation, {})
    /\ Respond(w, [op |-> "respondToInvitation", user |-> req[w].user,
                   invitationId |-> updatedInvitation.id,
                   status |-> "OK", error |-> "",
                   accept |-> req[w].accept,
                   before |-> req[w].invitation, at |-> req[w].at])
    /\ UNCHANGED <<now, nextId, nreq>>

(***************************************************************************)
(* api.ts _handleStopTimer: the running timer of the caller is handed to   *)
(* db.stopTimer without a membership check of the handler's own.           *)
(***************************************************************************)
\* _handleStopTimer: getActiveTimerByUser reads the user index
handleStopTimer_getIndex(w, u) ==
    /\ Accept(w)
    /\ nreq' = nreq + 1
    /\ IF Has(createKey(<<"active_timer_user", u>>))
       THEN /\ req' = [req EXCEPT ![w] =
                  [pc |-> "hs_timer", op |-> "stopTimer", user |-> u,
                   indexed |-> kv[createKey(<<"active_timer_user", u>>)].timerId]]
            /\ UNCHANGED log
       ELSE Respond(w, [op |-> "stopTimer", user |-> u, status |-> "NotFound",
                        error |-> "No active timer found"])
    /\ UNCHANGED <<kv, now, nextId>>

\* _handleStopTimer: getActiveTimerByUser reads the timer; then db.stopTimer
\* starts, reads the clock and computes the hours
handleStopTimer_getTimer(w) ==
    /\ req[w].pc = "hs_timer"
    /\ IF Has(createKey(<<"active_timer", req[w].indexed>>))
       THEN /\ req' = [req EXCEPT ![w] =
                  [pc |-> "sp_db_member", op |-> "stopTimer", user |-> req[w].user,
                   timer |-> kv[createKey(<<"active_timer", req[w].indexed>>)],
                   hours |-> now - kv[createKey(<<"active_timer",
                                                  req[w].indexed>>)].startedAt]]
            /\ UNCHANGED log
       ELSE Respond(w, [op |-> "stopTimer", user |-> req[w].user,
                        status |-> "NotFound", error |-> "No active timer found"])
    /\ UNCHANGED <<kv, now, nextId, nreq>>

(***************************************************************************)
(* Sessions: handlers/auth.ts login, logout; middleware/auth.ts            *)
(* authenticate; db.ts createAuthToken, getAuthToken, deleteAuthToken.     *)
(*                                                                         *)
(* The string after "Bearer " is the sequence of the parts a ':' separates *)
(* in it; user ids and tokens are UUIDs and hold no ':' themselves.        *)
(***************************************************************************)
\* the lifetime login gives a token (24 hours), in ticks
TokenTtl == 2

hashPassword(password) == <<"SHA-256", password>>

PasswordInputs == {"pw", "other"}

AuthUser(u) ==
    [id |-> u, email |-> SeedUser(u).email, hourlyRate |-> SeedUser(u).hourlyRate,
     passwordHash |-> hashPassword("pw")]

\* two registered users, nobody logged in
AuthStore == createUserSets(AuthUser(1)) @@ createUserSets(AuthUser(2))

\* `${user.id}:${token}`
FormatToken(userId, token) == <<userId, token>>

\* const [userId, authToken] = token.split(":"): the first two parts, each
\* undefined (the empty set) when the string has no such part
SplitToken(parts) ==
    [userId |-> IF Len(parts) >= 1 THEN {parts[1]} ELSE {},
     authToken |-> IF Len(parts) >= 2 THEN {parts[2]} ELSE {}]

Bearer(parts) == [scheme |-> "Bearer", parts |-> parts]

\* the bearer strings login has handed out so far
Issued ==
    {log[n].token : n \in {i \in 1..Len(log) :
                              log[i].op = "login" /\ log[i].status = "OK"}}

\* the Authorization headers a request may carry: none, another scheme, a
\* bearer string without a token part, an issued string, an issued token
\* under another user's id, and an issued string with a part appended
HeaderInputs ==
    {[scheme |-> "", parts |-> << >>], [scheme |-> "Basic", parts |-> <<1, 1>>],
     Bearer(<<1>>)}
    \cup {Bearer(t) : t \in Issued}
    \cup {Bearer(FormatToken(u, t[2])) : u \in Users, t \in Issued}

createAuthTokenSets(authToken) ==
    createKey(<<"auth", authToken.userId, authToken.token>>) :> authToken

\* a logout that leaves the token record in place
deleteAuthTokenKeysNone(userId, token) == {}

\* deleteAuthToken: kv.delete of the token record
deleteAuthTokenKeys(userId, token) == {createKey(<<"auth", userId, token>>)}

\* a check that accepts a token of any age
TokenLiveUnchecked(tokenData) == TRUE

\* new Date(tokenData.expiresAt) < new Date() is refused
TokenLive(tokenData) == ~(tokenData.expiresAt < now)

\* login: getUserByEmail reads the email index
login_getUserByEmail(w, email, password) ==
    /\ Accept(w)
    /\ nreq' = nreq + 1
    /\ IF Has(createKey(<<"user_email", email>>))
       THEN /\ req' = [req EXCEPT ![w] =
                  [pc |-> "lg_user", op |-> "login", email |-> email,
                   password |-> password,
                   userId |-> kv[createKey(<<"user_email", email>>)].userId]]
            /\ UNCHANGED log
       ELSE Respond(w, [op |-> "login", email |-> email, status |-> "Unauthorized",
                        error |-> "Invalid credentials"])
    /\ UNCHANGED <<kv, now, nextId>>

\* login: getUserByEmail reads the user; the password check; the AuthToken
login_getUserById(w) ==
    LET key == createKey(<<"user", req[w].userId>>) IN
    /\ req[w].pc = "lg_user"
    /\ IF Has(key) /\ kv[key].passwordHash = hashPassword(req[w].password)
       THEN /\ req' = [req EXCEPT ![w] =
                  [pc |-> "lg_token", op |-> "login", email |-> req[w].email,
                   authToken |-> [token |-> nextId, userId |-> kv[key].id,
                                  expiresAt |-> now + TokenTtl, createdAt |-> now]]]
            /\ nextId' = nextId + 1
            /\ UNCHANGED log
       ELSE /\ Respond(w, [op |-> "login", email |-> req[w].email,
                           status |-> "Unauthorized",
                           error |-> "Invalid credentials"])
            /\ UNCHANGED nextId
    /\ UNCHANGED <<kv, now, nreq>>

\* login: createAuthToken, kv.set of the token record
login_createAuthToken(w) ==
    /\ req[w].pc = "lg_token"
    /\ kv' = Applied(createAuthTokenSets(req[w].authToken), {})
    /\ Respond(w, [op |-> "login", email |-> req[w].email, status |-> "OK",
                   error |-> "",
                   token |-> FormatToken(req[w].authToken.userId,
                                         req[w].authToken.token),
                   authToken |-> req[w].authToken])
    /\ UNCHANGED <<now, nextId, nreq>>

\* authenticate: the header, its two parts, getAuthToken, the expiry.  In
\* the request, began (the number of responses sent before it) and at (the
\* time of the expiry check) are history.
authenticate_getAuthToken(w, opName, header) ==
    LET parts == SplitToken(header.parts)
        unauthorized ==
            Respond(w, [op |-> opName, header |-> header, began |-> Len(log),
                        status |-> "Unauthorized", error |-> "Unauthorized"])
    IN
    /\ Accept(w)
    /\ nreq' = nreq + 1
    /\ IF header.scheme # "Bearer" \/ parts.userId = {} \/ parts.authToken = {}
       THEN unauthorized
       ELSE LET userId == CHOOSE u \in parts.userId : TRUE
                authToken == CHOOSE t \in parts.authToken : TRUE
                key == createKey(<<"auth", userId, authToken>>)
            IN IF Has(key) /\ TokenLive(kv[key])
               THEN /\ req' = [req EXCEPT ![w] =
                          [pc |-> "au_user", op |-> opName, header |-> header,
                           began |-> Len(log), at |-> now, tokenData |-> kv[key],
                           userId |-> userId, authToken |-> authToken]]
                    /\ UNCHANGED log
               ELSE unauthorized
    /\ UNCHANGED <<kv, now, nextId>>

\* authenticate: getUserById; the handler goes on with the user, or answers
\* Unauthorized when there is none
authenticate_getUserById(w) ==
    /\ req[w].pc = "au_user"
    /\ IF Has(createKey(<<"user", req[w].userId>>))
       THEN /\ req' = [req EXCEPT
                  ![w].pc = IF req[w].op = "logout" THEN "lo_delete" ELSE "gp_list"]
            /\ UNCHANGED log
       ELSE Respond(w, [op |-> req[w].op, header |-> req[w].header,
                        began |-> req[w].began, status |-> "Unauthorized",
                        error |-> "Unauthorized"])
    /\ UNCHANGED <<kv, now, nextId, nreq>>

\* logout: deleteAuthToken with the two parts of the header
logout_deleteAuthToken(w) ==
    /\ req[w].pc = "lo_delete"
    /\ kv' = Applied(EmptyStore, deleteAuthTokenKeys(req[w].userId, req[w].authToken))
    /\ Respond(w, [op |-> "logout", header |-> req[w].header, began |-> req[w].began,
                   status |-> "OK", error |-> "", at |-> req[w].at,
                   tokenData |-> req[w].tokenData, userId |-> req[w].userId])
    /\ UNCHANGED <<now, nextId, nreq>>

\* GET /pay-periods of an authenticated user: getPayPeriods
getPayPeriods_list(w) ==
    /\ req[w].pc = "gp_list"
    /\ Respond(w, [op |-> "getPayPeriods", header |-> req[w].header,
                   began |-> req[w].began, status |-> "OK", error |-> "",
                   at |-> req[w].at, tokenData |-> req[w].tokenData,
                   userId |-> req[w].userId,
                   data |-> getPayPeriods(req[w].userId, 0, 0)])
    /\ UNCHANGED <<kv, now, nextId, nreq>>

(***************************************************************************)
(* api.ts router, POST /api/projects/members: the body's member is handed  *)
(* to db.createProjectMember for any authenticated caller.                 *)
(***************************************************************************)
\* the roles an add-member request body carries
RoleInputs == {"MEMBER", "ADMIN"}

\* POST /api/projects/members: createProjectMember of the body's projectId,
\* userId, role and hourlyRate.  In the response, callerRole (the role of
\* the caller in the project when the request committed, if any) and before
\* (the member record the commit replaced, if any) are history.
router_addMember(w, u, projectId, userId, role, hourlyRate) ==
    LET member == [projectId |-> projectId, userId |-> userId, role |-> role,
                   hourlyRate |-> hourlyRate, totalHours |-> 0]
        callerKey == createKey(<<"project_member", projectId, u>>)
        memberKey == createKey(<<"project_member", projectId, userId>>)
    IN
    /\ Accept(w)
    /\ nreq' = nreq + 1
    /\ kv' = Applied(createProjectMemberSets(member), {})
    /\ Respond(w, [op |-> "addMember", user |-> u, status |-> "OK", error |-> "",
                   member |-> member,
                   callerRole |-> IF Has(callerKey) THEN {kv[callerKey].role} ELSE {},
                   before |-> IF Has(memberKey) THEN {kv[memberKey]} ELSE {}])
    /\ UNCHANGED <<now, nextId>>

\* the invitation ids an answer may carry: those of the stored invitations
InvitationIds == {k[2] : k \in List(<<"project_invitation">>)}

(***************************************************************************)
(* Specifications.                                                         *)
(***************************************************************************)
InitSeeded ==
    /\ kv = SeedStore
    /\ now = 0
    /\ nextId = 100
    /\ req = [w \in Workers |-> Idle]
    /\ log = << >>
    /\ nreq = 0

NextTimer ==
    \/ Tick
    \/ \E w \in Workers, u \in Users, p \in Projects : startTimer_getIndex(w, u, p)
    \/ \E w \in Workers : startTimer_getTimer(w)
    \/ \E w \in Workers : startTimer_getMember(w)
    \/ \E w \in Workers : startTimer_commit(w)
    \/ \E w \in Workers, u \in Users, p \in Projects : handleStartTimer(w, u, p)
    \/ \E w \in Workers, u \in Users, t \in TimerIdInputs : stopTimer_getIndex(w, u, t)
    \/ \E w \in Workers : stopTimer_getTimer(w)
    \/ \E w \in Workers : stopTimer_getMember(w)
    \/ \E w \in Workers : stopTimer_db_getMember(w)
    \/ \E w \in Workers : stopTimer_commit(w)

SpecTimer == InitSeeded /\ [][NextTimer]_vars

NextLedger ==
    \/ \E w \in Workers, u \in Users, p \in Projects, h \in HoursInputs, d \in DateInputs :
           createTimeEntry_getMember(w, u, p, h, d)
    \/ \E w \in Workers : createTimeEntry_commit(w)
    \/ \E w \in Workers, u \in Users, e \in EntryIdInputs : completeTimeEntry_getEntry(w, u, e)
    \/ \E w \in Workers : completeTimeEntry_getMember(w)
    \/ \E w \in Workers : completeTimeEntry_db_getEntry(w)
    \/ \E w \in Workers : completeTimeEntry_db_getMember(w)
    \/ \E w \in Workers : completeTimeEntry_db_set(w)
    \/ \E w \in Workers : completeTimeEntry_db_getProject(w)
    \/ \E w \in Workers, u \in Users, p \in Projects, a \in AmountInputs :
           updateBudget_getMember(w, u, p, a)
    \/ \E w \in Workers : updateProjectBudget_get(w)
    \/ \E w \in Workers : updateProjectBudget_set(w)

SpecLedger == InitSeeded /\ [][NextLedger]_vars

InitIdentity ==
    /\ kv = EmptyStore
    /\ now = 0
    /\ nextId = 100
    /\ req = [w \in Workers |-> Idle]
    /\ log = << >>
    /\ nreq = 0

NextIdentity ==
    \/ \E w \in Workers, e \in Emails : register_getUserByEmail(w, e)
    \/ \E w \in Workers : register_getUserById(w)
    \/ \E w \in Workers : createUser_get(w)
    \/ \E w \in Workers : createUser_commit(w)

SpecIdentity == InitIdentity /\ [][NextIdentity]_vars

\* Time entries from both sources, and their completion.  The clock advances
\* only while a timer is stored, and createTimeEntry carries 1.5 hours.
NextEntries ==
    \/ (List(<<"active_timer">>) # {} /\ Tick)
    \/ \E w \in Workers, u \in Users, p \in Projects : handleStartTimer(w, u, p)
    \/ \E w \in Workers, u \in Users, t \in TimerIdInputs : stopTimer_getIndex(w, u, t)
    \/ \E w \in Workers : stopTimer_getTimer(w)
    \/ \E w \in Workers : stopTimer_getMember(w)
    \/ \E w \in Workers : stopTimer_db_getMember(w)
    \/ \E w \in Workers : stopTimer_commit(w)
    \/ \E w \in Workers, u \in Users, p \in Projects, h \in {3}, d \in DateInputs :
           createTimeEntry_getMember(w, u, p, h, d)
    \/ \E w \in Workers : createTimeEntry_commit(w)
    \/ \E w \in Workers, u \in Users, e \in EntryIdInputs : completeTimeEntry_getEntry(w, u, e)
    \/ \E w \in Workers : completeTimeEntry_getMember(w)
    \/ \E w \in Workers : completeTimeEntry_db_getEntry(w)
    \/ \E w \in Workers : completeTimeEntry_db_getMember(w)
    \/ \E w \in Workers : completeTimeEntry_db_set(w)
    \/ \E w \in Workers : completeTimeEntry_db_getProject(w)
    \/ \E w \in Workers : updateProjectBudget_get(w)
    \/ \E w \in Workers : updateProjectBudget_set(w)

SpecEntries == InitSeeded /\ [][NextEntries]_vars

\* Projects, their members, invitations and profit shares.
NextProject ==
    \/ \E w \in Workers, u \in Users, b \in BudgetInputs, sh \in BOOLEAN :
           createProject_commit(w, u, b, sh)
    \/ \E w \in Workers : createProject_createMember(w)
    \/ \E w \in Workers, u \in Users, p \in Projects, e \in Emails :
           inviteMember_getMember(w, u, p, e)
    \/ \E w \in Workers : createProjectInvitation_set(w)
    \/ \E w \in Workers : createProjectInvitation_setIndex(w)
    \/ \E w \in Workers, u \in Users, p \in Projects, id \in ShareIdInputs :
           createProfitShare_getProject(w, u, p, id)
    \/ \E w \in Workers : createProfitShare_set(w)
    \/ \E w \in Workers : createProfitShare_setIndex(w)
    \/ \E w \in Workers, p \in Projects : deleteProject_get(w, p)
    \/ \E w \in Workers : deleteProject_delete(w)
    \/ \E w \in Workers : deleteProject_deleteOwner(w)
    \/ \E w \in Workers, u \in Users, p \in Projects, upd \in UpdateInputs :
           updateProject_getMember(w, u, p, upd)
    \/ \E w \in Workers : updateProject_getProject(w)
    \/ \E w \in Workers : updateProject_db_get(w)
    \/ \E w \in Workers : updateProject_db_set(w)
    \/ \E w \in Workers, u \in Users, p \in Projects, a \in AmountInputs :
           updateBudget_getMember(w, u, p, a)
    \/ \E w \in Workers : updateProjectBudget_get(w)
    \/ \E w \in Workers : updateProjectBudget_set(w)

SpecProject == InitSeeded /\ [][NextProject]_vars

\* Time entries, their completion and profit distribution, on a store with
\* two projects.
InitProfit ==
    /\ kv = ProfitStore
    /\ now = 0
    /\ nextId = 100
    /\ req = [w \in Workers |-> Idle]
    /\ log = << >>
    /\ nreq = 0

NextProfit ==
    \/ \E w \in Workers, u \in Users, p \in ProfitProjects, h \in {0, 3}, d \in {0} :
           createTimeEntry_getMember(w, u, p, h, d)
    \/ \E w \in Workers : createTimeEntry_commit(w)
    \/ \E w \in Workers, u \in Users, p \in ProjectIdInputs :
           distributeProjectProfits_getProject(w, u, p)
    \/ \E w \in Workers : distributeProjectProfits_db_getProject(w)
    \/ \E w \in Workers : distributeProjectProfits_list(w)
    \/ \E w \in Workers : distributeProjectProfits_commit(w)
    \/ \E w \in Workers, u \in Users, e \in EntryIdInputs : completeTimeEntry_getEntry(w, u, e)
    \/ \E w \in Workers : completeTimeEntry_getMember(w)
    \/ \E w \in Workers : completeTimeEntry_db_getEntry(w)
    \/ \E w \in Workers : completeTimeEntry_db_getMember(w)
    \/ \E w \in Workers : completeTimeEntry_db_set(w)
    \/ \E w \in Workers : completeTimeEntry_db_getProject(w)
    \/ \E w \in Workers : updateProjectBudget_get(w)
    \/ \E w \in Workers : updateProjectBudget_set(w)

SpecProfit == InitProfit /\ [][NextProfit]_vars

\* Pay periods, financial summaries and the financials of a user.
InitFinance ==
    /\ kv = FinanceStore
    /\ now = 0
    /\ nextId = 100
    /\ req = [w \in Workers |-> Idle]
    /\ log = << >>
    /\ nreq = 0

NextFinance ==
    \/ \E w \in Workers, u \in Users, id \in PayPeriodIdInputs, d \in DateInputs :
           createPayPeriod_commit(w, u, id, d, d + 1)
    \/ \E w \in Workers, u \in Users, d \in DateInputs :
           handleGetPayPeriods(w, u, d, d + 1)
    \/ \E w \in Workers, u \in Users, d \in DateInputs :
           createUserFinancialSummary(w, u, d, d + 1)
    \/ \E w \in Workers, p \in Projects, d \in DateInputs :
           createProjectFinancialSummary(w, p, d, d + 1)
    \/ \E w \in Workers, a \in FinanceUsers, b \in FinanceUsers, d \in {NoDate, 0} :
           handleGetUserFinancials(w, a, b, d, IF d = NoDate THEN NoDate ELSE 2)

SpecFinance == InitFinance /\ [][NextFinance]_vars

\* Answers to an invitation, while the clock runs past its expiry.
InitInvite ==
    /\ kv = InviteStore
    /\ now = 0
    /\ nextId = 100
    /\ req = [w \in Workers |-> Idle]
    /\ log = << >>
    /\ nreq = 0

NextInvite ==
    \/ Tick
    \/ \E w \in Workers, u \in {2, 3}, id \in InvitationIdInputs, accept \in BOOLEAN :
           respondToInvitation_get(w, u, id, accept)
    \/ \E w \in Workers : respondToInvitation_createMember(w)
    \/ \E w \in Workers : respondToInvitation_update(w)

SpecInvite == InitInvite /\ [][NextInvite]_vars

\* Timers of a member and of a user who is in no project, stopped through
\* either handler.
StopUsers == {1, 3}

NextStop ==
    \/ Tick
    \/ \E w \in Workers, u \in StopUsers, p \in Projects : handleStartTimer(w, u, p)
    \/ \E w \in Workers, u \in StopUsers, t \in TimerIdInputs : stopTimer_getIndex(w, u, t)
    \/ \E w \in Workers : stopTimer_getTimer(w)
    \/ \E w \in Workers : stopTimer_getMember(w)
    \/ \E w \in Workers, u \in StopUsers : handleStopTimer_getIndex(w, u)
    \/ \E w \in Workers : handleStopTimer_getTimer(w)
    \/ \E w \in Workers : stopTimer_db_getMember(w)
    \/ \E w \in Workers : stopTimer_commit(w)

SpecStop == InitFinance /\ [][NextStop]_vars

\* Logins, logouts and authenticated requests, while the clock runs past the
\* expiry of a token.
InitAuth ==
    /\ kv = AuthStore
    /\ now = 0
    /\ nextId = 100
    /\ req = [w \in Workers |-> Idle]
    /\ log = << >>
    /\ nreq = 0

NextAuth ==
    \/ Tick
    \/ \E w \in Workers, e \in Emails, pw \in PasswordInputs :
           login_getUserByEmail(w, e, pw)
    \/ \E w \in Workers : login_getUserById(w)
    \/ \E w \in Workers : login_createAuthToken(w)
    \/ \E w \in Workers, h \in HeaderInputs, o \in {"logout", "getPayPeriods"} :
           authenticate_getAuthToken(w, o, h)
    \/ \E w \in Workers : authenticate_getUserById(w)
    \/ \E w \in Workers : logout_deleteAuthToken(w)
    \/ \E w \in Workers : getPayPeriods_list(w)

SpecAuth == InitAuth /\ [][NextAuth]_vars

\* Members of a project: its creation, invitations and their answers, and
\* the add-member route, by members and by a user who is in no project.  An
\* add-member request carries the hourly rate 75.
NextMember ==
    \/ \E w \in Workers, u \in Users, b \in BudgetInputs, sh \in {FALSE} :
           createProject_commit(w, u, b, sh)
    \/ \E w \in Workers : createProject_createMember(w)
    \/ \E w \in Workers, u \in Users, p \in Projects, e \in Emails :
           inviteMember_getMember(w, u, p, e)
    \/ \E w \in Workers : createProjectInvitation_set(w)
    \/ \E w \in Workers : createProjectInvitation_setIndex(w)
    \/ \E w \in Workers, u \in FinanceUsers, id \in InvitationIds, accept \in BOOLEAN :
           respondToInvitation_get(w, u, id, accept)
    \/ \E w \in Workers : respondToInvitation_createMember(w)
    \/ \E w \in Workers : respondToInvitation_update(w)
    \/ \E w \in Workers, u \in FinanceUsers, p \in Projects, m \in FinanceUsers,
          role \in RoleInputs, rate \in {75} :
           router_addMember(w, u, p, m, role, rate)

SpecMember == InitInvite /\ [][NextMember]_vars

(***************************************************************************)
(* Properties.  Responses stands for the positions of the response log.    *)
(***************************************************************************)
Responses == 1..Len(log)

\* the accepted startTimer responses, the successful stopTimer responses
StartsCreated == {n \in Responses : log[n].op = "startTimer" /\ log[n].status = "Created"}

StopsOK == {n \in Responses : log[n].op = "stopTimer" /\ log[n].status = "OK"}

CreatesCreated ==
    {n \in Responses : log[n].op = "createTimeEntry" /\ log[n].status = "Created"}

\* C1: for every user at most one ActiveTimer record exists in every
\* reachable state, so of the startTimer calls for one user that overlap or
\* follow each other without a stop, only one is accepted.
C1_AtMostOneActiveTimerPerUser ==
    \A u \in Users :
        Cardinality({k \in List(<<"active_timer">>) : kv[k].userId = u}) <= 1

\* C2: no two user records share an email; of the createUser calls for one
\* email exactly one succeeds, and every other one fails with the duplicate
\* email error of the read or the failed commit of the absent-check.
RegisterResponses(e) ==
    {n \in Responses : log[n].op = "register" /\ log[n].email = e}

getBudgetTransactions(projectId) ==
    {kv[createKey(<<"budget_transaction", kv[k].transactionId>>)] :
        k \in {j \in List(createKey(<<"budget_transaction_project", projectId>>)) :
                  Has(createKey(<<"budget_transaction", kv[j].transactionId>>))}}

RECURSIVE SumAmounts(_)
SumAmounts(S) ==
    IF S = {} THEN 0
    ELSE LET x == CHOOSE y \in S : TRUE IN x.amount + SumAmounts(S \ {x})

\* C3: in every reachable state, for every project, remainingBudget equals
\* budget minus the sum of the project's BudgetTransaction amounts (with the
\* amounts taken as charges, or as signed changes).
C3_RemainingBudgetMatchesTransactions ==
    \A p \in Projects :
        Has(createKey(<<"project", p>>))
           => LET project == kv[createKey(<<"project", p>>)]
                  total == SumAmounts(getBudgetTransactions(p))
              IN  \/ project.remainingBudget = project.budget - total
                  \/ project.remainingBudget = project.budget + total

\* the sum of the amounts of the budget adjustments of project p that
\* reported success among the first n responses
RECURSIVE AdjustedBy(_, _)
AdjustedBy(p, n) ==
    IF n = 0 THEN 0
    ELSE AdjustedBy(p, n - 1)
         + (IF /\ log[n].op \in {"updateBudget", "completeTimeEntry"}
               /\ log[n].status = "OK"
               /\ log[n].applied
               /\ log[n].project = p
            THEN log[n].amount ELSE 0)

\* C4: budget adjustments never lose an update: the remainingBudget of a
\* project has changed by exactly the sum of the amounts of the adjustments
\* that reported success.
C4_NoLostBudgetUpdate ==
    \A p \in Projects :
        RemainingBudget(kv, p) = RemainingBudget(SeedStore, p) + AdjustedBy(p, Len(log))

\* C5: createTimeEntry with hours H by a member of rate R stores an entry
\* with costImpact = H x R and decreases the project's remainingBudget by
\* exactly H x R.
C5_CreateTimeEntryChargesBudget ==
    \A n \in CreatesCreated :
        /\ log[n].entry.costImpact = Cost(log[n].entry.hours, log[n].rate)
        /\ Has(createKey(<<"time", log[n].entry.id>>))
        /\ log[n].budgetAfter = log[n].budgetBefore - log[n].entry.costImpact

\* C6: stopTimer deletes the timer with its indexes and creates the TimeEntry
\* with its indexes in one commit: a started timer whose record is gone has a
\* stored TimeEntry with both index entries, and while the TimeEntry of a
\* stop is stored, the stopped timer's record, the singleton index pointing
\* to it and its project index entry are absent.
C6_StopTimerAtomic ==
    /\ \A s \in StartsCreated :
          ~Has(createKey(<<"active_timer", log[s].timer.id>>))
             => \E n \in StopsOK :
                   /\ log[n].timer.id = log[s].timer.id
                   /\ Has(createKey(<<"time", log[n].entry.id>>))
                   /\ Has(createKey(<<"time_user", log[n].entry.userId,
                                      log[n].entry.date, log[n].entry.id>>))
                   /\ Has(createKey(<<"time_project", log[n].entry.projectId,
                                      log[n].entry.date, log[n].entry.id>>))
    /\ \A n \in StopsOK :
          Has(createKey(<<"time", log[n].entry.id>>))
             => /\ ~Has(createKey(<<"active_timer", log[n].timer.id>>))
                /\ ~Has(createKey(<<"active_timer_project", log[n].timer.projectId,
                                    log[n].timer.id>>))
                /\ ~(/\ Has(createKey(<<"active_timer_user", log[n].timer.userId>>))
                     /\ kv[createKey(<<"active_timer_user", log[n].timer.userId>>)].timerId
                           = log[n].timer.id)

\* a timer was started, ran and was stopped: its record is gone and its
\* TimeEntry is stored
C6_Witness ==
    \E s \in StartsCreated, n \in StopsOK :
        /\ log[n].timer.id = log[s].timer.id
        /\ log[n].entry.hours > 0
        /\ ~Has(createKey(<<"active_timer", log[s].timer.id>>))
        /\ Has(createKey(<<"time", log[n].entry.id>>))

\* C7: right after a stopTimer the singleton index key of the user is absent
\* and getActiveTimerByUser finds nothing; the stopped timer is never again
\* listed by getActiveTimerByUser or getActiveTimersByProject; and a
\* startTimer that arrives after the stop, with no other start of the user
\* accepted in between, is accepted.
C7_StopThenStart ==
    /\ (Len(log) > 0 /\ Len(log) \in StopsOK)
          => /\ ~Has(createKey(<<"active_timer_user", log[Len(log)].timer.userId>>))
             /\ getActiveTimerByUser(log[Len(log)].timer.userId) = {}
    /\ \A n \in StopsOK :
          /\ \A t \in getActiveTimerByUser(log[n].timer.userId) : t.id # log[n].timer.id
          /\ \A t \in getActiveTimersByProject(log[n].timer.projectId) :
                t.id # log[n].timer.id
    /\ \A m \in Responses :
          (/\ log[m].op = "startTimer"
           /\ \E n \in StopsOK :
                 /\ n <= log[m].began
                 /\ log[n].timer.userId = log[m].user
                 /\ \A j \in StartsCreated :
                       ~(n < j /\ j <= log[m].began /\ log[j].user = log[m].user))
             => log[m].status = "Created"

\* a user's timer was stopped and a start of that user that arrived
\* afterwards was accepted
C7_Witness ==
    \E n \in StopsOK, m \in StartsCreated :
        /\ n <= log[m].began
        /\ log[n].timer.userId = log[m].user
        /\ Has(createKey(<<"active_timer_user", log[m].user>>))

\* C8: a startTimer for a user who has a running timer fails with the
\* already-running error (and so writes nothing).
C8_SecondStartRejected ==
    \A n \in Responses :
        (log[n].op = "startTimer" /\ log[n].running)
           => /\ log[n].status = "BadRequest"
              /\ log[n].error = "User already has an active timer"

\* C9: stopTimer after elapsed time h with member rate R yields a TimeEntry
\* with hours = h and costImpact = h x R, and lowers the project's
\* remainingBudget by exactly that costImpact.
C9_StopTimerChargesBudget ==
    \A n \in StopsOK :
        /\ log[n].entry.hours >= 0
        /\ log[n].entry.costImpact = Cost(log[n].entry.hours, log[n].rate)
        /\ log[n].budgetAfter = log[n].budgetBefore - log[n].entry.costImpact

\* the responses that inserted a TimeEntry
Inserted == CreatesCreated \cup StopsOK

\* C10: every TimeEntry inserted by createTimeEntry or stopTimer is in every
\* later state returned by getTimeEntryById, and by getTimeEntriesByUser for
\* every range that covers its date, with the payload that was inserted.
C10_TimeEntryRetrievable ==
    \A n \in Inserted :
        LET entry == log[n].entry IN
        /\ getTimeEntryById(entry.id) = {entry}
        /\ \A startDate \in 0..MaxTime, endDate \in 0..MaxTime :
              (startDate <= entry.date /\ entry.date <= endDate)
                 => {e \in getTimeEntriesByUser(entry.userId, startDate, endDate) :
                        e.id = entry.id} = getTimeEntryById(entry.id)

\* an entry was inserted and afterwards completed
C10_Witness ==
    \E n \in Inserted, m \in Responses :
        /\ n < m
        /\ log[m].op = "completeTimeEntry"
        /\ log[m].status = "OK"
        /\ log[m].entry.id = log[n].entry.id

\* C11: no reachable state has a project record without a ProjectMember
\* record with role Owner for its ownerId.
C11_ProjectHasOwnerMember ==
    \A k \in List(<<"project">>) :
        /\ Has(createKey(<<"project_member", kv[k].id, kv[k].ownerId>>))
        /\ kv[createKey(<<"project_member", kv[k].id, kv[k].ownerId>>)].role = "OWNER"

\* C12: every profit share, project invitation and budget transaction has
\* its index entry and every such index entry has its primary record; every
\* project has its owner index entry and every owner index entry its project.
C12_PrimaryAndIndexTogether ==
    /\ \A k \in List(<<"profit_share">>) :
          Has(createKey(<<"profit_share_project", kv[k].projectId, kv[k].id>>))
    /\ \A k \in List(<<"profit_share_project">>) :
          Has(createKey(<<"profit_share", kv[k].shareId>>))
    /\ \A k \in List(<<"project_invitation">>) :
          Has(createKey(<<"project_invitation_email", kv[k].inviteeEmail, kv[k].id>>))
    /\ \A k \in List(<<"project_invitation_email">>) :
          Has(createKey(<<"project_invitation", kv[k].invitationId>>))
    /\ \A k \in List(<<"budget_transaction">>) :
          Has(createKey(<<"budget_transaction_project", kv[k].projectId, kv[k].id>>))
    /\ \A k \in List(<<"budget_transaction_project">>) :
          Has(createKey(<<"budget_transaction", kv[k].transactionId>>))
    /\ \A k \in List(<<"project">>) :
          Has(createKey(<<"project_owner", kv[k].ownerId, kv[k].id>>))
    /\ \A k \in List(<<"project_owner">>) :
          Has(createKey(<<"project", kv[k].projectId>>))

\* C19: a step changes the remainingBudget of a project only if the same
\* step writes a ledger record (a BudgetTransaction) of that project.
C19_BudgetChangedOnlyByCascade ==
    [][\A k \in List(<<"project">>) :
          (/\ k \in DOMAIN kv'
           /\ kv'[k].remainingBudget # kv[k].remainingBudget)
             => \E t \in DOMAIN kv' \ DOMAIN kv :
                   /\ t[1] = "budget_transaction"
                   /\ kv'[t].projectId = kv[k].id]_vars

\* the responses of distribute-profits requests, and the successful ones
Distributions == {n \in Responses : log[n].op = "distributeProjectProfits"}

DistributionsOK == {n \in Distributions : log[n].status = "OK"}

\* the responses of the requests that passed the project, owner and profit
\* sharing checks, so that the time entries were scanned
DistributionsScanned ==
    {n \in Distributions : log[n].found /\ log[n].enabled = {TRUE}}

\* the sum of a numeric field over a set of records
RECURSIVE SumOf(_, _)
SumOf(S, field) ==
    IF S = {} THEN 0
    ELSE LET x == CHOOSE y \in S : TRUE IN x[field] + SumOf(S \ {x}, field)

\* the JavaScript sum of the bonusEarnings of a set of Earnings objects
RECURSIVE JsSumBonus(_)
JsSumBonus(S) ==
    IF S = {} THEN Num(0)
    ELSE LET x == CHOOSE y \in S : TRUE
         IN  JsAdd(JsSumBonus(S \ {x}), x.bonusEarnings)

\* C13: a distribution over contributions m_i with total M > 0 succeeds and
\* gives every contributor i, summed over the records written for i, the
\* amount P x m_i / M of the pool P it reports.
C13_ProportionalShares ==
    \A n \in DistributionsScanned :
        SumOf(log[n].entries, "hours") > 0
           => /\ log[n].status = "OK"
              /\ ~log[n].distributedAmount.nan
              /\ \A u \in Users :
                    LET mine == {e \in log[n].earnings : e.userId = {u}}
                        hours == SumOf({e \in log[n].entries : e.userId = u}, "hours")
                    IN  /\ ~JsSumBonus(mine).nan
                        /\ JsSumBonus(mine).v * SumOf(log[n].entries, "hours")
                              = log[n].distributedAmount.v * hours

C15_ZeroContributionFails ==
    \A n \in DistributionsScanned :
        SumOf(log[n].entries, "hours") = 0
           => /\ log[n].status # "OK"
              /\ log[n].error = "No time entries found"

\* the outcome C16 requires of every distribute-profits response
DistributionRefused ==
    \A n \in Distributions :
        /\ ~log[n].found
              => /\ log[n].status \in {"NotFound", "InternalServerError"}
                 /\ log[n].error = "Project not found"
        /\ log[n].enabled = {FALSE}
              => /\ log[n].status = "InternalServerError"
                 /\ log[n].error = "Profit sharing is not enabled for this project"

\* C16: distributeProjectProfits fails with the not-found error when the
\* project does not exist and with the sharing-disabled error when profit
\* sharing is off, and no step of a distribution other than its successful
\* commit changes the store.
C16_NotFoundOrDisabled ==
    [][/\ DistributionRefused'
       /\ (/\ Len(log') > Len(log)
           /\ log'[Len(log')].op = "distributeProjectProfits"
           /\ log'[Len(log')].status # "OK") => kv' = kv
       /\ \A w \in Workers :
             (/\ req'[w].pc \in {"dp_db_project", "dp_list", "dp_commit"}
              /\ req'[w] # req[w]) => kv' = kv]_vars

\* a distribution on no project and one on the project without profit
\* sharing were both refused, and the store is the initial one
C16_Witness ==
    /\ \E n \in Distributions : log[n].project = 12 /\ log[n].status = "NotFound"
    /\ \E n \in Distributions :
          /\ log[n].project = 11
          /\ log[n].error = "Profit sharing is not enabled for this project"
    /\ kv = ProfitStore

\* the amount of a payout, 0 for NaN
PaidOut(e) == IF e.bonusEarnings.nan THEN 0 ELSE e.bonusEarnings.v

RECURSIVE SumPaidOut(_)
SumPaidOut(S) ==
    IF S = {} THEN 0
    ELSE LET x == CHOOSE y \in S : TRUE IN PaidOut(x) + SumPaidOut(S \ {x})

\* C17: for every project the costImpact of its completed TimeEntries plus
\* the amounts distributed does not exceed its budget.
C17_WithinBudget ==
    \A p \in ProfitProjects :
        SumOf({kv[k] : k \in {j \in List(<<"timeEntries">>) : kv[j].projectId = p}},
              "costImpact")
          + SumPaidOut({kv[k] : k \in {j \in List(<<"earnings">>) : kv[j].projectId = p}})
          <= kv[createKey(<<"project", p>>)].budget

Repeated(n, m) ==
    /\ n \in DistributionsOK
    /\ m \in DistributionsOK
    /\ n < m
    /\ log[n].project = log[m].project
    /\ log[n].entries = log[m].entries

C21_OnePayPeriodPerUserStart ==
    \A u \in Users, d \in DateInputs :
        Cardinality(List(createKey(<<"pay_period_user", u, d>>))) <= 1

SummariesWritten(opName) ==
    {log[n].summary : n \in {i \in Responses : log[i].op = opName}}

\* C29: a summary written by createUserFinancialSummary (resp.
\* createProjectFinancialSummary) is returned by getUserFinancialSummaries
\* (resp. getProjectFinancialSummaries) for the same user (resp. project)
\* when no range is given and when its period lies within the range.
C29_SummaryWrittenIsReturned ==
    /\ \A s \in SummariesWritten("createUserFinancialSummary") :
           /\ s \in getUserFinancialSummaries(s.subject, NoDate, NoDate)
           /\ s \in getUserFinancialSummaries(s.subject, s.period.startDate,
                                              s.period.endDate)
    /\ \A s \in SummariesWritten("createProjectFinancialSummary") :
           /\ s \in getProjectFinancialSummaries(s.subject, NoDate, NoDate)
           /\ s \in getProjectFinancialSummaries(s.subject, s.period.startDate,
                                                 s.period.endDate)

\* the two users are members of a common project
ShareProject(a, b) ==
    \E k \in List(createKey(<<"project_member">>)) :
        k[3] = a /\ Has(createKey(<<"project_member", k[2], b>>))

\* C30: a request for another user's financials succeeds exactly when the
\* requester and that user are members of a common project, and is Forbidden
\* otherwise.
C30_FinancialsOfFellowMembers ==
    \A n \in Responses :
        (log[n].op = "getUserFinancials" /\ log[n].requester # log[n].userId)
        => /\ log[n].status \in {"OK", "Forbidden"}
           /\ log[n].status = "OK" <=> ShareProject(log[n].requester, log[n].userId)

InvitationAnswers ==
    {n \in Responses : log[n].op = "respondToInvitation" /\ log[n].status = "OK"}

\* C22: an answer to an invitation that has expired or is no longer PENDING
\* fails and changes nothing: every answer that succeeds found the
\* invitation PENDING and not expired, so an invitation is accepted or
\* declined at most once.
C22_AnswerOnlyPendingUnexpired ==
    /\ \A n \in InvitationAnswers :
           /\ log[n].before.status = "PENDING"
           /\ log[n].before.expiresAt >= log[n].at
    /\ \A n \in InvitationAnswers, m \in InvitationAnswers :
           log[n].invitationId = log[m].invitationId => n = m

IsMemberOfTimerProject(timer, u) ==
    Has(createKey(<<"project_member", timer.projectId, u>>))

\* C24: stopTimer for a running timer whose user is not a member of the
\* timer's project fails, creates no TimeEntry, and leaves the ActiveTimer
\* record and both its indexes in place.
C24_StopByNonMemberFails ==
    [][\A w \in Workers :
          /\ (/\ req[w].pc = "sp_db_member"
              /\ req'[w] # req[w]
              /\ ~IsMemberOfTimerProject(req[w].timer, req[w].timer.userId))
                => /\ req'[w].pc = "idle"
                   /\ Len(log') = Len(log) + 1
                   /\ log'[Len(log')].op = "stopTimer"
                   /\ log'[Len(log')].status = "InternalServerError"
                   /\ log'[Len(log')].error = "User is not a member of this project"
                   /\ kv' = kv
          /\ (/\ req[w].pc = "sp_member"
              /\ req'[w] # req[w]
              /\ ~IsMemberOfTimerProject(req[w].timer, req[w].user))
                => /\ req'[w].pc = "idle"
                   /\ Len(log') = Len(log) + 1
                   /\ log'[Len(log')].op = "stopTimer"
                   /\ log'[Len(log')].status = "Forbidden"
                   /\ kv' = kv
          /\ req'[w].pc = "sp_commit"
                => IsMemberOfTimerProject(req'[w].timer, req'[w].timer.userId)
      ]_vars

\* a stop of the timer of a user who is no member was refused, and the timer
\* and its two indexes are still there
C24_Witness ==
    \E n \in Responses :
        /\ log[n].op = "stopTimer"
        /\ log[n].error = "User is not a member of this project"
        /\ \E t \in getActiveTimerByUser(log[n].user) :
               /\ ~IsMemberOfTimerProject(t, t.userId)
               /\ Has(createKey(<<"active_timer_project", t.projectId, t.id>>))
        /\ List(createKey(<<"time">>)) = {}

\* C25: completeTimeEntry for an id with no TimeEntry record is answered
\* NotFound by a step that changes nothing, in particular no project's
\* remainingBudget; a completion goes on only for an entry that exists.
C25_CompleteMissingEntryNotFound ==
    [][\A w \in Workers :
          /\ (IsIdle(w) /\ ~(req'[w].pc = "idle") /\ req'[w].op = "completeTimeEntry")
                => /\ req'[w].pc = "ct_auth"
                   /\ Has(createKey(<<"time", req'[w].entryId>>))
                   /\ req'[w].entry = kv[createKey(<<"time", req'[w].entryId>>)]
                   /\ kv' = kv
          /\ (/\ nreq' = nreq + 1
              /\ Len(log') = Len(log) + 1
              /\ log'[Len(log')].op = "completeTimeEntry")
                => /\ log'[Len(log')].status = "NotFound"
                   /\ kv' = kv
          /\ (/\ req[w].pc = "ct_db_entry"
              /\ req'[w] # req[w]
              /\ ~Has(createKey(<<"time", req[w].entryId>>)))
                => /\ req'[w].pc = "idle"
                   /\ log'[Len(log')].error = "Time entry not found"
                   /\ kv' = kv
      ]_vars

\* a completion of an id that is no entry's was answered NotFound, and no
\* budget has moved
C25_Witness ==
    /\ \E n \in Responses :
           log[n].op = "completeTimeEntry" /\ log[n].status = "NotFound"
    /\ \A p \in Projects : RemainingBudget(kv, p) = SeedProject(p).remainingBudget
    /\ List(createKey(<<"time">>)) # {}

\* C26: createUser has three outcomes: success, a duplicate-email conflict
\* found by the fast-path read, and a race conflict when the commit is
\* rejected by the email-index-absent check.  The store of the model never
\* fails, so every registration that fails has lost to another user of the
\* same email, and is reported as that conflict and not as a database error.
C26_RaceReportedAsConflict ==
    \A e \in Emails :
        \A n \in RegisterResponses(e) :
            log[n].status # "OK"
               => /\ Has(createKey(<<"user_email", e>>))
                  /\ log[n].error = "Email already exists"

\* the responses to requests that went through authenticate
Authenticated == {n \in Responses : log[n].op \in {"logout", "getPayPeriods"}}

LogoutsOK == {n \in Authenticated : log[n].op = "logout" /\ log[n].status = "OK"}

\* C27: after a successful logout with token T, every request that begins
\* later and presents T is rejected as Unauthorized, a second logout
\* included; a new login hands out another token.
C27_TokenDeadAfterLogout ==
    \A n \in LogoutsOK :
        /\ \A m \in Authenticated :
               (log[m].header = log[n].header /\ log[m].began >= n)
                  => log[m].status = "Unauthorized"
        /\ \A m \in Responses :
               (m > n /\ log[m].op = "login" /\ log[m].status = "OK")
                  => Bearer(log[m].token) # log[n].header

\* a token was used to log out, and a later logout that presented it again
\* was rejected
C27_Witness ==
    \E n \in LogoutsOK :
        \E m \in Authenticated :
            /\ log[m].op = "logout"
            /\ log[m].header = log[n].header
            /\ log[m].began >= n
            /\ log[m].status = "Unauthorized"

LoginsOK == {n \in Responses : log[n].op = "login" /\ log[n].status = "OK"}

\* C28: authenticate accepts a request only if it carries
\* 'Bearer userId:token', a token record is stored under exactly that
\* (userId, token) pair, it is the record a login issued to that user with
\* an expiry 24 hours after the login, and the expiry is not in the past
\* when it is checked.
C28_AcceptsOnlyLiveOwnToken ==
    \A n \in Authenticated :
        log[n].status = "OK"
           => /\ log[n].header.scheme = "Bearer"
              /\ Len(log[n].header.parts) >= 2
              /\ log[n].tokenData.userId = log[n].header.parts[1]
              /\ log[n].tokenData.token = log[n].header.parts[2]
              /\ log[n].userId = log[n].tokenData.userId
              /\ log[n].tokenData.expiresAt >= log[n].at
              /\ \E m \in LoginsOK :
                     /\ m <= log[n].began
                     /\ log[m].authToken = log[n].tokenData
                     /\ log[m].authToken.expiresAt = log[m].authToken.createdAt + TokenTtl
                     /\ kv[createKey(<<"user_email", log[m].email>>)].userId
                            = log[n].userId

\* a token was accepted, and later, still stored, it was rejected because it
\* had expired
C28_Witness ==
    \E n \in Authenticated, m \in Authenticated :
        /\ log[n].status = "OK"
        /\ m > n
        /\ log[m].header = log[n].header
        /\ log[m].status = "Unauthorized"
        /\ Has(createKey(<<"auth", log[n].tokenData.userId, log[n].tokenData.token>>))
        /\ kv[createKey(<<"auth", log[n].tokenData.userId,
                          log[n].tokenData.token>>)].expiresAt < now

\* the Earnings records a distribution run of a pay period wrote
RunEarnings(payPeriodId) ==
    {kv[k] : k \in {j \in List(<<"earnings">>) : kv[j].payPeriodId = payPeriodId}}

C32_TotalsFromTimeEntries ==
    /\ \A w \in Workers :
           req[w].pc = "dp_commit"
              => /\ req[w].totalHours = Num(SumOf(req[w].entries, "hours"))
                 /\ req[w].totalProfit =
                        JsTimesPercentage(
                            Num(SumOf(req[w].entries, "costImpact")),
                            kv[createKey(<<"project", req[w].project>>)]
                                .profitSharingPercentage)
    /\ \A n \in DistributionsOK :
           /\ log[n].totalHours = Num(SumOf(log[n].entries, "hours"))
           /\ log[n].distributedAmount =
                  JsTimesPercentage(Num(SumOf(log[n].entries, "costImpact")),
                                    log[n].projectBefore.profitSharingPercentage)

\* C33: getTimeEntriesByUser(userId, startDate, endDate) returns exactly the
\* TimeEntries of that user dated from startDate to endDate, both included:
\* none of another user, none outside the range, none missing, and none
\* twice (no two index entries of the user lead to one entry).
C33_EntriesOfUserInRange ==
    \A u \in Users :
        /\ \A startDate \in 0..MaxTime, endDate \in 0..MaxTime :
               getTimeEntriesByUser(u, startDate, endDate)
                  = {kv[k] : k \in {j \in List(createKey(<<"time">>)) :
                                       /\ kv[j].userId = u
                                       /\ startDate <= kv[j].date
                                       /\ kv[j].date <= endDate}}
        /\ \A i \in List(createKey(<<"time_user", u>>)),
              j \in List(createKey(<<"time_user", u>>)) :
               kv[i].entryId = kv[j].entryId => i = j

\* one user has entries on two dates, a range of one day returns the entry
\* of that day only, and the other user has an entry too
C33_Witness ==
    \E u \in Users, v \in Users :
        /\ u # v
        /\ Cardinality(getTimeEntriesByUser(u, 0, 0)) = 1
        /\ Cardinality(getTimeEntriesByUser(u, 1, 1)) = 1
        /\ Cardinality(getTimeEntriesByUser(u, 0, 1)) = 2
        /\ getTimeEntriesByUser(v, 0, MaxTime) # {}

\* C34: each started timer yields at most one TimeEntry: of the stopTimer
\* calls that read the same running timer, at most one succeeds and inserts
\* an entry.
C34_OneEntryPerTimer ==
    \A n \in StopsOK, m \in StopsOK :
        log[n].timer.id = log[m].timer.id => n = m

\* C35: the timer keys are mutually consistent: every active_timer record
\* has the singleton entry of its user pointing to it and the entry of its
\* project, and every such index entry points to a stored ActiveTimer of
\* that user or project.
C35_TimerKeysConsistent ==
    /\ \A k \in List(<<"active_timer">>) :
           /\ Has(createKey(<<"active_timer_user", kv[k].userId>>))
           /\ kv[createKey(<<"active_timer_user", kv[k].userId>>)].timerId = kv[k].id
           /\ Has(createKey(<<"active_timer_project", kv[k].projectId, kv[k].id>>))
    /\ \A k \in List(<<"active_timer_user">>) :
           /\ Has(createKey(<<"active_timer", kv[k].timerId>>))
           /\ kv[createKey(<<"active_timer", kv[k].timerId>>)].userId = k[2]
    /\ \A k \in List(<<"active_timer_project">>) :
           /\ Has(createKey(<<"active_timer", k[3]>>))
           /\ kv[createKey(<<"active_timer", k[3]>>)].projectId = k[2]

\* the successful completeTimeEntry responses
CompletesOK ==
    {n \in Responses : log[n].op = "completeTimeEntry" /\ log[n].status = "OK"}

\* the completed entries as stored
CompletedEntries == {kv[k] : k \in List(<<"timeEntries">>)}

\* C36: completeTimeEntry charges an entry to the budget at most once: with
\* completions as the only budget changes, the project's remainingBudget is
\* never lower than its budget minus the costImpact of each completed entry
\* counted once.
C36_EntryChargedOnce ==
    \A p \in Projects :
        RemainingBudget(kv, p)
           >= kv[createKey(<<"project", p>>)].budget
                 - SumOf({e \in CompletedEntries : e.projectId = p}, "costImpact")

\* C37: after a successful completeTimeEntry, getTimeEntryById returns the
\* updated entry that the call returned, and so do the scans of the user's
\* entries over a range that covers its date.
C37_CompletedEntryIsRead ==
    \A n \in CompletesOK :
        /\ getTimeEntryById(log[n].entry.id) = {log[n].entry}
        /\ log[n].entry \in getTimeEntriesByUser(log[n].entry.userId, 0, MaxTime)

\* C38: a deleted project stays deleted: every write of updateProject finds
\* the project record present at the moment of the write, also when a
\* deleteProject of the same project runs between its steps.
C38_UpdateNeverRecreates ==
    [][\A w \in Workers :
          (req[w].pc = "up_db_set" /\ req'[w] # req[w])
             => Has(createKey(<<"project", req[w].updatedProject.id>>))]_vars

\* the member index entries of user u in project p
MemberIndexEntries(p, u) ==
    {k \in List(createKey(<<"project_member_index", p>>)) : k[4] = u}

\* C39: each (project, user) pair has at most one project_member_index
\* entry, and its role is the role of the primary project_member record,
\* also after createProjectMember is applied again to a member with another
\* role.
C39_OneIndexEntryPerMember ==
    \A p \in Projects, u \in FinanceUsers :
        /\ Cardinality(MemberIndexEntries(p, u)) <= 1
        /\ \A k \in MemberIndexEntries(p, u) :
               /\ Has(createKey(<<"project_member", p, u>>))
               /\ kv[createKey(<<"project_member", p, u>>)].role = k[3]

\* the successful add-member responses, the accepted invitations
AddsOK == {n \in Responses : log[n].op = "addMember" /\ log[n].status = "OK"}

AcceptsOK ==
    {n \in Responses : /\ log[n].op = "respondToInvitation"
                       /\ log[n].status = "OK"
                       /\ log[n].accept}

\* C40: a ProjectMember record comes into existence only through the
\* creation of its project by the owner, through the invited user accepting
\* a pending invitation issued by an owner or admin of the project, or
\* through an add-member request of an owner or admin of the project; a
\* user who is no member of the project adds or overwrites no member.
C40_MembersOnlyByAuthority ==
    /\ \A n \in AddsOK : log[n].callerRole \cap {"OWNER", "ADMIN"} # {}
    /\ \A n \in AcceptsOK :
           /\ log[n].before.status = "PENDING"
           /\ Has(createKey(<<"user", log[n].user>>))
           /\ kv[createKey(<<"user", log[n].user>>)].email = log[n].before.inviteeEmail
    /\ \A k \in List(createKey(<<"project_member">>)) :
           \/ k \in DOMAIN InviteStore /\ kv[k] = InviteStore[k]
           \/ \E n \in AddsOK : log[n].member = kv[k]
           \/ \E n \in AcceptsOK :
                  /\ log[n].before.projectId = k[2]
                  /\ log[n].user = k[3]
                  /\ log[n].before.role = kv[k].role
           \/ \E w \in Workers :
                  /\ req[w].pc = "rs_update"
                  /\ req[w].accept
                  /\ req[w].member = kv[k]
           \/ \E n \in Responses :
                  /\ log[n].op = "createProject"
                  /\ log[n].project.id = k[2]
                  /\ log[n].project.ownerId = k[3]
                  /\ kv[k].role = "OWNER"

====
